---- MODULE Spec2Model ----
(***************************************************************************)
(* NeoN: the owning buffer Vector<ValueType> (include/NeoN/core/vector.hpp) *)
(* over the executors' memory, as a state machine.                         *)
(*                                                                         *)
(* vec  : the Vector objects (slots), each with the fields size_, data_,   *)
(*        exec_ of the class, and whether the object is alive.             *)
(* heap : the memory handed out by the executors: per address whether it   *)
(*        is allocated, by which executor, and the elements stored there.  *)
(* badFree : whether free() was ever called on an address that is not an   *)
(*        allocated block of the calling executor.                         *)
(* debug: the build mode (NF_DEBUG defined or not), fixed at start.        *)
(* last : the operation executed last and whether it reported an error.    *)
(*                                                                         *)
(* The assembly functions (computeDiv, computeDivImp, DdtOperator) run as   *)
(* dispatches of index-parametrized kernels over the executor:             *)
(* args : the arguments of the call in progress (executor, mesh            *)
(*        connectivity, face and cell data), fixed during the call.        *)
(* mem  : the arrays the kernels write (res, or matrix values and rhs).    *)
(* iter : per dispatch and index, how far that iteration has got and the   *)
(*        value it holds in a register between a read and a write.         *)
(* The same three variables hold the state of a BackwardEuler::solve call   *)
(* (statements executed, kernels issued, position of the caller) and of    *)
(* the GeometryScheme objects and stencil databases.                       *)
(***************************************************************************)
EXTENDS Integers, Sequences, FiniteSets, TLC

VARIABLES vec, heap, badFree, debug, last, args, mem, iter

vars == <<vec, heap, badFree, debug, last, args, mem, iter>>
\* the state of the Vector operations, and the state of an assembly call
vecVars == <<vec, heap, badFree, debug, last>>
asmVars == <<args, mem, iter>>

\* ------------------------------------------------------------- bounds
MaxVecs == 2
MaxAddr == 3
MaxSize == 2
MaxVal == 1

\* ------------------------------------------------------------- domains
Executors == {"Serial", "CPU", "GPU"}
VecIds == 1..MaxVecs
\* slot Tmp is the temporary object of the expression being evaluated
Tmp == 0
Slots == {Tmp} \cup VecIds
Addrs == 1..MaxAddr
NullPtr == 0
Sizes == 0..MaxSize
Values == 0..MaxVal

Min(a, b) == IF a < b THEN a ELSE b
Abs(x) == IF x < 0 THEN -x ELSE x

\* Serial and CPU executors allocate in host memory, the GPU executor in
\* device memory.
MemorySpace(e) == IF e = "GPU" THEN "Device" ELSE "Host"

DeadVec == [live |-> FALSE, size |-> 0, data |-> NullPtr, exec |-> "Serial"]
FreeBlock == [alloc |-> FALSE, exec |-> "Serial", cells |-> <<>>]

\* the store the Vector operations act on
Store == [vec |-> vec, heap |-> heap, bad |-> badFree]

\* elements of the buffer of v (the empty sequence for a null buffer)
Cells(S, v) == IF S.vec[v].data = NullPtr THEN <<>> ELSE S.heap[S.vec[v].data].cells
Contents(v) == Cells(Store, v)

\* ------------------------------------------------------------- scalar
\* scalar (single precision): the result of an arithmetic operation is rounded
\* to 24 significant bits, to nearest, ties to even. Values are integers.
Mant == 16777216
Ulp(m) == IF m < Mant THEN 1 ELSE IF m < 2 * Mant THEN 2 ELSE IF m < 4 * Mant THEN 4 ELSE 8
RoundMag(m) ==
    LET u == Ulp(m)
        q == m \div u
        r == m % u
    IN IF 2 * r < u THEN q * u
       ELSE IF 2 * r > u THEN (q + 1) * u
       ELSE IF q % 2 = 0 THEN q * u ELSE (q + 1) * u
fl(x) == IF x < 0 THEN -RoundMag(-x) ELSE RoundMag(x)

\* the element values the model stores: results outside are not computed
ValueRange == Values \cup {Mant}

\* ------------------------------------------------------------- executor memory
\* Addresses are names only: the allocator hands out the lowest free one.
FreeAddrs(H) == {a \in Addrs : ~H[a].alloc}
NextFree(H) == {a \in FreeAddrs(H) : \A b \in FreeAddrs(H) : a <= b}

\* exec.alloc(bytes): no block for 0 bytes (null); else a block at a free
\* address with arbitrary (uninitialized) contents. The set of outcomes.
alloc(H, e, n) ==
    IF n = 0 THEN {[ptr |-> NullPtr, heap |-> H]}
    ELSE {[ptr |-> ac[1],
           heap |-> [H EXCEPT ![ac[1]] = [alloc |-> TRUE, exec |-> e, cells |-> ac[2]]]] :
             ac \in NextFree(H) \X [1..n -> Values]}

\* exec.realloc(ptr, bytes) on a block: the first min(old, new) elements are
\* kept, the rest is arbitrary; the block stays or moves. For 0 bytes the
\* executor either releases the block and returns null, or returns a block of
\* length 0.
realloc(H, e, p, n) ==
    IF p = NullPtr THEN alloc(H, e, n)
    ELSE LET old == H[p].cells
             keep == Min(Len(old), n)
             news == IF n = 0 THEN {<<>>}
                     ELSE {c \in [1..n -> Values] : \A i \in 1..keep : c[i] = old[i]}
         IN {[ptr |-> p, heap |-> [H EXCEPT ![p].cells = c]] : c \in news}
            \cup {[ptr |-> ac[1],
                   heap |-> [H EXCEPT ![p] = FreeBlock,
                                      ![ac[1]] = [alloc |-> TRUE, exec |-> e, cells |-> ac[2]]]] :
                     ac \in NextFree(H) \X news}
            \cup (IF n = 0 THEN {[ptr |-> NullPtr, heap |-> [H EXCEPT ![p] = FreeBlock]]} ELSE {})

\* exec.free(ptr): releases the block; null is ignored
free(H, p) == IF p = NullPtr THEN H ELSE [H EXCEPT ![p] = FreeBlock]
\* free of something that is not an allocated block of executor e
isBadFree(H, e, p) == p # NullPtr /\ (~H[p].alloc \/ H[p].exec # e)

\* (faulty variant: the last element is not copied)
deepCopyVisitorShort(H, n, src, dst) ==
    IF n = 0 \/ dst = NullPtr \/ src = NullPtr THEN H
    ELSE [H EXCEPT ![dst].cells =
            [i \in 1..Len(H[dst].cells) |-> IF i < n THEN H[src].cells[i] ELSE H[dst].cells[i]]]

\* Kokkos::deep_copy of n elements from the block at src to the block at dst
deepCopyVisitor(H, n, src, dst) ==
    IF n = 0 \/ dst = NullPtr \/ src = NullPtr THEN H
    ELSE [H EXCEPT ![dst].cells =
            [i \in 1..Len(H[dst].cells) |-> IF i <= n THEN H[src].cells[i] ELSE H[dst].cells[i]]]

\* NeoN::fill(a, value): every element of a set to value
fill(S, v, val) ==
    IF S.vec[v].data = NullPtr THEN S
    ELSE [S EXCEPT !.heap[S.vec[v].data].cells = [i \in 1..S.vec[v].size |-> val]]

\* NeoN::setVector(a, view): a[i] = view[i] over the range of a
setVector(S, d, r) ==
    IF S.vec[d].data = NullPtr THEN S
    ELSE [S EXCEPT !.heap[S.vec[d].data].cells =
            [i \in 1..S.vec[d].size |-> Cells(S, r)[i]]]

\* ------------------------------------------------------------- Vector
\* Vector(exec, size): allocation only
ctorUninit(S, v, e, n) ==
    {[S EXCEPT !.vec[v] = [live |-> TRUE, size |-> n, data |-> o.ptr, exec |-> e],
               !.heap = o.heap] : o \in alloc(S.heap, e, n)}

\* (faulty variant: the fill is missing)
ctorFilledNoFill(S, v, e, n, val) == ctorUninit(S, v, e, n)

\* Vector(exec, size, value): allocation, then fill
ctorFilled(S, v, e, n, val) == {fill(T, v, val) : T \in ctorUninit(S, v, e, n)}

\* Vector(exec, in, size, srcExec) with in the buffer of Vector r
ctorFromExisting(S, v, e, r) ==
    {[T EXCEPT !.heap = deepCopyVisitor(T.heap, S.vec[r].size, S.vec[r].data, T.vec[v].data)] :
        T \in ctorUninit(S, v, e, S.vec[r].size)}

\* (faulty variant: the copy shares the buffer of rhs)
copyCtorShallow(S, v, r) == {[S EXCEPT !.vec[v] = S.vec[r]]}

\* Vector(const Vector& rhs)
copyCtor(S, v, r) == ctorFromExisting(S, v, S.vec[r].exec, r)

\* (faulty variant: rhs keeps its pointer and size)
moveCtorKeepsSource(S, v, r) ==
    [S EXCEPT !.vec[v] = [live |-> TRUE, size |-> S.vec[r].size,
                          data |-> S.vec[r].data, exec |-> S.vec[r].exec]]

\* Vector(Vector&& rhs)
moveCtor(S, v, r) ==
    [S EXCEPT !.vec[v] = [live |-> TRUE, size |-> S.vec[r].size,
                          data |-> S.vec[r].data, exec |-> S.vec[r].exec],
              !.vec[r].data = NullPtr,
              !.vec[r].size = 0]

\* ~Vector()
dtor(S, v) ==
    [S EXCEPT !.heap = free(S.heap, S.vec[v].data),
              !.bad = S.bad \/ isBadFree(S.heap, S.vec[v].exec, S.vec[v].data),
              !.vec[v] = DeadVec]

\* (faulty variant: for the source's own executor the result aliases the source)
copyToExecutorAlias(S, v, r, e) ==
    IF e = S.vec[r].exec THEN {[S EXCEPT !.vec[v] = S.vec[r]]}
    ELSE {[T EXCEPT !.heap = deepCopyVisitor(T.heap, S.vec[r].size, S.vec[r].data, T.vec[v].data)] :
            T \in ctorUninit(S, v, e, S.vec[r].size)}

\* copyToExecutor(dstExec), the result constructed in slot v
copyToExecutor(S, v, r, e) ==
    IF e = S.vec[r].exec THEN copyCtor(S, v, r)
    ELSE {[T EXCEPT !.heap = deepCopyVisitor(T.heap, S.vec[r].size, S.vec[r].data, T.vec[v].data)] :
            T \in ctorUninit(S, v, e, S.vec[r].size)}

\* (faulty variant: always a fresh allocation, the old buffer is released)
resizeFresh(S, v, n) ==
    {[S EXCEPT !.heap = o.heap, !.vec[v].data = o.ptr, !.vec[v].size = n] :
        o \in alloc(free(S.heap, S.vec[v].data), S.vec[v].exec, n)}

\* resize(size)
resize(S, v, n) ==
    LET outs == IF S.vec[v].size # 0
                THEN realloc(S.heap, S.vec[v].exec, S.vec[v].data, n)
                ELSE alloc(S.heap, S.vec[v].exec, n)
    IN {[S EXCEPT !.heap = o.heap, !.vec[v].data = o.ptr, !.vec[v].size = n] : o \in outs}

\* (faulty variant: the assertion is compiled out)
sameExecutorUnchecked(S, d, r) == TRUE

\* NF_ASSERT(exec_ == rhs.exec_, ...) of operator=: TRUE when it passes
sameExecutor(S, d, r) == S.vec[d].exec = S.vec[r].exec

\* operator=(const Vector& rhs) once the assertion passed
assignVector(S, d, r) ==
    LET Ts == IF S.vec[d].size # S.vec[r].size THEN resize(S, d, S.vec[r].size) ELSE {S}
    IN {setVector(T, d, r) : T \in Ts}

\* ------------------------------------------------------------- arithmetic
\* validateOtherVector(rhs): the two NF_DEBUG_ASSERTs, compiled only into a
\* debug build. TRUE when the call returns without reporting an error.
validateOtherVector(S, a, b, dbg) ==
    ~dbg \/ (S.vec[a].size = S.vec[b].size /\ S.vec[a].exec = S.vec[b].exec)

\* whether the kernel running on the executor of a reads element i of b: the
\* element has to exist and to lie in memory the executor of a can address
readable(S, a, b, i) ==
    i <= Len(Cells(S, b)) /\ MemorySpace(S.vec[a].exec) = MemorySpace(S.vec[b].exec)

\* add / sub / mul(a, b): a[i] = a[i] op b[i] for every i of the range of a. An
\* element of b that cannot be read (out of bounds, other memory space) leaves
\* an arbitrary value.
addOp(x, y) == fl(x + y)
subOp(x, y) == fl(x - y)
\* (a product of two values of magnitude 2^24 or more lies beyond the value range)
mulOp(x, y) == IF Abs(x) >= Mant /\ Abs(y) >= Mant THEN 4 * Mant ELSE fl(x * y)
applyOp(op, x, y) ==
    IF op = "add" THEN addOp(x, y) ELSE IF op = "sub" THEN subOp(x, y) ELSE mulOp(x, y)
binaryOp(S, a, b, op) ==
    LET n == S.vec[a].size
        res(i) == IF readable(S, a, b, i)
                  THEN {applyOp(op, Cells(S, a)[i], Cells(S, b)[i])} \cap ValueRange
                  ELSE Values
    IN {[S EXCEPT !.heap[S.vec[a].data].cells = c] :
          c \in {d \in [1..n -> UNION {res(i) : i \in 1..n}] : \A i \in 1..n : d[i] \in res(i)}}
add(S, a, b) == IF S.vec[a].size = 0 THEN {S} ELSE binaryOp(S, a, b, "add")
sub(S, a, b) == IF S.vec[a].size = 0 THEN {S} ELSE binaryOp(S, a, b, "sub")
mul(S, a, b) == IF S.vec[a].size = 0 THEN {S} ELSE binaryOp(S, a, b, "mul")

\* scalarMul(a, value): a[i] = a[i] * value for every i of the range of a
scalarMul(S, a, value) ==
    IF S.vec[a].size = 0 THEN {S}
    ELSE LET n == S.vec[a].size
             res(i) == {mulOp(Cells(S, a)[i], value)} \cap ValueRange
         IN {[S EXCEPT !.heap[S.vec[a].data].cells = c] :
               c \in {d \in [1..n -> UNION {res(i) : i \in 1..n}] : \A i \in 1..n : d[i] \in res(i)}}

\* the functors handed to apply: the index itself, and zero for every index
Functors == {"index", "zero"}
\* map(a, f): a[i] = f(i) for every index i of the range {0, size} of a
map(S, a, f) ==
    IF S.vec[a].data = NullPtr THEN S
    ELSE [S EXCEPT !.heap[S.vec[a].data].cells =
            [k \in 1..S.vec[a].size |-> IF f = "index" THEN k - 1 ELSE 0]]
\* apply(f)
apply(S, v, f) == map(S, v, f)

\* operator*=(const scalar rhs): scalarMul on *this
mulAssignScalar(S, a, rhs) == scalarMul(S, a, rhs)

\* operator*(const scalar rhs): result(exec_, size_); result = *this; scalarMul
operatorMulScalar(S, c, a, rhs) ==
    UNION {UNION {scalarMul(U, c, rhs) : U \in assignVector(T, c, a)} :
             T \in ctorUninit(S, c, S.vec[a].exec, S.vec[a].size)}

\* operator+=, operator-=, operator*=(const Vector&) after validateOtherVector
plusAssign(S, a, b) == add(S, a, b)
minusAssign(S, a, b) == sub(S, a, b)
mulAssign(S, a, b) == mul(S, a, b)

\* operator*(const Vector& rhs): result(exec_, size_); result = *this; mul
operatorMul(S, c, a, b) ==
    UNION {UNION {mul(U, c, b) : U \in assignVector(T, c, a)} :
             T \in ctorUninit(S, c, S.vec[a].exec, S.vec[a].size)}

\* (faulty variant: lhs is taken by reference, the sum lands in the left operand)
operatorPlusByRef(S, c, a, b) == UNION {copyCtor(T, c, a) : T \in plusAssign(S, a, b)}

\* operator+(Vector lhs, const Vector& rhs): lhs is a copy of the left operand;
\* lhs += rhs; lhs is returned by move. Slot c holds the copy and the result.
operatorPlus(S, c, a, b) == UNION {plusAssign(T, c, b) : T \in copyCtor(S, c, a)}
\* operator-(Vector lhs, const Vector& rhs)
operatorMinus(S, c, a, b) == UNION {minusAssign(T, c, b) : T \in copyCtor(S, c, a)}

\* (a + b) - b: operator- takes the temporary a + b as its lhs, lhs -= rhs
operatorPlusMinus(S, c, a, b) == UNION {minusAssign(T, c, b) : T \in operatorPlus(S, c, a, b)}

\* operator=(const ValueType& rhs)
assignValue(S, v, val) == fill(S, v, val)

\* view()[i] = val from host code
writeElem(S, v, i, val) == [S EXCEPT !.heap[S.vec[v].data].cells[i] = val]

\* ------------------------------------------------------------- actions
\* no assembly call is in progress
NoCall == [op |-> "none"]
AsmIdle == args = NoCall /\ mem = NoCall /\ iter = NoCall

Apply(S, op) ==
    /\ vec' = S.vec
    /\ heap' = S.heap
    /\ badFree' = S.bad
    /\ last' = [op |-> op, err |-> FALSE]
    /\ UNCHANGED debug
    /\ UNCHANGED asmVars

\* the operation reports an error (NF_ASSERT) and changes nothing
Throw(op) ==
    /\ last' = [op |-> op, err |-> TRUE]
    /\ UNCHANGED <<vec, heap, badFree, debug>>
    /\ UNCHANGED asmVars

Live(v) == vec[v].live

ConstructUninit(v, e, n) ==
    /\ ~Live(v)
    /\ \E T \in ctorUninit(Store, v, e, n) : Apply(T, "ctorUninit")

ConstructFilled(v, e, n, val) ==
    /\ ~Live(v)
    /\ \E T \in ctorFilled(Store, v, e, n, val) : Apply(T, "ctorFilled")

ConstructFromExisting(v, e, r) ==
    /\ ~Live(v) /\ Live(r)
    /\ \E T \in ctorFromExisting(Store, v, e, r) : Apply(T, "ctorFromExisting")

CopyConstruct(v, r) ==
    /\ ~Live(v) /\ Live(r)
    /\ \E T \in copyCtor(Store, v, r) : Apply(T, "copyCtor")

MoveConstruct(v, r) ==
    /\ ~Live(v) /\ Live(r)
    /\ Apply(moveCtor(Store, v, r), "moveCtor")

Destroy(v) ==
    /\ Live(v)
    /\ Apply(dtor(Store, v), "dtor")

CopyToExecutor(v, r, e) ==
    /\ ~Live(v) /\ Live(r)
    /\ \E T \in copyToExecutor(Store, v, r, e) : Apply(T, "copyToExecutor")

\* v = r.copyToExecutor(e).copyToExecutor(r.exec()); t is the temporary
RoundTrip(v, t, r, e) ==
    /\ ~Live(v) /\ ~Live(t) /\ v # t /\ Live(r)
    /\ \E T \in copyToExecutor(Store, t, r, e) :
         \E U \in copyToExecutor(T, v, t, vec[r].exec) : Apply(dtor(U, t), "roundTrip")

AssignValue(v, val) ==
    /\ Live(v)
    /\ Apply(assignValue(Store, v, val), "assignValue")

ApplyFunc(v, f) ==
    /\ Live(v)
    /\ Apply(apply(Store, v, f), "apply")

AssignVector(d, r) ==
    /\ Live(d) /\ Live(r)
    /\ IF sameExecutor(Store, d, r)
       THEN \E T \in assignVector(Store, d, r) : Apply(T, "assignVector")
       ELSE Throw("assignVector")

Resize(v, n) ==
    /\ Live(v)
    /\ \E T \in resize(Store, v, n) : Apply(T, "resize")

PlusAssign(a, b) ==
    /\ Live(a) /\ Live(b)
    /\ IF validateOtherVector(Store, a, b, debug)
       THEN \E T \in plusAssign(Store, a, b) : Apply(T, "plusAssign")
       ELSE Throw("plusAssign")

MinusAssign(a, b) ==
    /\ Live(a) /\ Live(b)
    /\ IF validateOtherVector(Store, a, b, debug)
       THEN \E T \in minusAssign(Store, a, b) : Apply(T, "minusAssign")
       ELSE Throw("minusAssign")

MulAssign(a, b) ==
    /\ Live(a) /\ Live(b)
    /\ IF validateOtherVector(Store, a, b, debug)
       THEN \E T \in mulAssign(Store, a, b) : Apply(T, "mulAssign")
       ELSE Throw("mulAssign")

OperatorMul(c, a, b) ==
    /\ ~Live(c) /\ Live(a) /\ Live(b)
    /\ IF validateOtherVector(Store, a, b, debug)
       THEN \E T \in operatorMul(Store, c, a, b) : Apply(T, "operatorMul")
       ELSE Throw("operatorMul")

MulAssignScalar(a, rhs) ==
    /\ Live(a)
    /\ \E T \in mulAssignScalar(Store, a, rhs) : Apply(T, "mulAssignScalar")

OperatorMulScalar(c, a, rhs) ==
    /\ ~Live(c) /\ Live(a)
    /\ \E T \in operatorMulScalar(Store, c, a, rhs) : Apply(T, "operatorMulScalar")

OperatorPlus(c, a, b) ==
    /\ ~Live(c) /\ Live(a) /\ Live(b)
    /\ IF validateOtherVector(Store, a, b, debug)
       THEN \E T \in operatorPlus(Store, c, a, b) : Apply(T, "operatorPlus")
       ELSE Throw("operatorPlus")

OperatorMinus(c, a, b) ==
    /\ ~Live(c) /\ Live(a) /\ Live(b)
    /\ IF validateOtherVector(Store, a, b, debug)
       THEN \E T \in operatorMinus(Store, c, a, b) : Apply(T, "operatorMinus")
       ELSE Throw("operatorMinus")

PlusMinus(c, a, b) ==
    /\ ~Live(c) /\ Live(a) /\ Live(b)
    /\ IF validateOtherVector(Store, a, b, debug)
       THEN \E T \in operatorPlusMinus(Store, c, a, b) : Apply(T, "plusMinus")
       ELSE Throw("plusMinus")

WriteElem(v, i, val) ==
    /\ Live(v) /\ MemorySpace(vec[v].exec) = "Host"
    /\ i \in 1..vec[v].size
    /\ Apply(writeElem(Store, v, i, val), "writeElem")

Init ==
    /\ AsmIdle
    /\ vec = [v \in Slots |-> DeadVec]
    /\ heap = [a \in Addrs |-> FreeBlock]
    /\ badFree = FALSE
    /\ debug = FALSE
    /\ last = [op |-> "init", err |-> FALSE]

Next ==
    \/ \E v \in VecIds, e \in Executors, n \in Sizes : ConstructUninit(v, e, n)
    \/ \E v \in VecIds, e \in Executors, n \in Sizes, val \in Values : ConstructFilled(v, e, n, val)
    \/ \E v \in VecIds, e \in Executors, r \in VecIds : ConstructFromExisting(v, e, r)
    \/ \E v \in VecIds, r \in VecIds : CopyConstruct(v, r)
    \/ \E v \in VecIds, r \in VecIds : MoveConstruct(v, r)
    \/ \E v \in VecIds : Destroy(v)
    \/ \E v \in VecIds, r \in VecIds, e \in Executors : CopyToExecutor(v, r, e)
    \/ \E v \in VecIds, r \in VecIds, e \in Executors : RoundTrip(v, Tmp, r, e)
    \/ \E v \in VecIds, val \in Values : AssignValue(v, val)
    \/ \E v \in VecIds, f \in Functors : ApplyFunc(v, f)
    \/ \E d \in VecIds, r \in VecIds : AssignVector(d, r)
    \/ \E v \in VecIds, n \in Sizes : Resize(v, n)
    \/ \E v \in VecIds, i \in 1..MaxSize, val \in Values : WriteElem(v, i, val)

Spec == Init /\ [][Next]_vars

\* ------------------------------------------------------------- arithmetic runs
\* Two Vectors a (slot 1) and b (slot 2), each built from an array on some
\* executor, in a debug or a release build; the arithmetic operators act on
\* them, binary results are temporaries (slot Tmp).
ArithValues == {MaxVal, Mant}
ArithArrays == UNION {[1..n -> ArithValues] : n \in Sizes}

ArithStore(ea, ca, eb, cb) ==
    [vec |-> [v \in Slots |->
                IF v = 1 THEN [live |-> TRUE, size |-> Len(ca),
                               data |-> IF Len(ca) = 0 THEN NullPtr ELSE 1, exec |-> ea]
                ELSE IF v = 2 THEN [live |-> TRUE, size |-> Len(cb),
                                    data |-> IF Len(cb) = 0 THEN NullPtr ELSE 2, exec |-> eb]
                ELSE DeadVec],
     heap |-> [a \in Addrs |->
                IF a = 1 /\ Len(ca) > 0 THEN [alloc |-> TRUE, exec |-> ea, cells |-> ca]
                ELSE IF a = 2 /\ Len(cb) > 0 THEN [alloc |-> TRUE, exec |-> eb, cells |-> cb]
                ELSE FreeBlock],
     bad |-> FALSE]

InitArith ==
    /\ AsmIdle
    /\ debug \in BOOLEAN
    /\ badFree = FALSE
    /\ last = [op |-> "init", err |-> FALSE]
    /\ \E ea \in Executors, eb \in Executors, ca \in ArithArrays, cb \in ArithArrays :
         /\ vec = ArithStore(ea, ca, eb, cb).vec
         /\ heap = ArithStore(ea, ca, eb, cb).heap

NextArith ==
    \/ \E a \in VecIds, b \in VecIds : PlusAssign(a, b)
    \/ \E a \in VecIds, b \in VecIds : MinusAssign(a, b)
    \/ \E a \in VecIds, b \in VecIds : MulAssign(a, b)
    \/ \E a \in VecIds, b \in VecIds : OperatorMul(Tmp, a, b)
    \/ \E a \in VecIds, rhs \in ArithValues : MulAssignScalar(a, rhs)
    \/ \E a \in VecIds, rhs \in ArithValues : OperatorMulScalar(Tmp, a, rhs)
    \/ \E a \in VecIds, b \in VecIds : OperatorPlus(Tmp, a, b)
    \/ \E a \in VecIds, b \in VecIds : OperatorMinus(Tmp, a, b)
    \/ \E a \in VecIds, b \in VecIds : PlusMinus(Tmp, a, b)
    \/ Destroy(Tmp)

SpecArith == InitArith /\ [][NextArith]_vars

\* ------------------------------------------------------------- host access
\* view(): the (pointer, length) pair of the buffer, on any executor
view(S, v) == [data |-> S.vec[v].data, first |-> 0, size |-> S.vec[v].size]
\* localIdx is an unsigned integer type (uint32_t, or uint64_t); the model
\* gives it IdxBits bits, so that the indices of the model fit and a
\* difference below zero wraps
IdxBits == 3
IdxModulus == 2 ^ IdxBits
IdxValues == 0..(MaxSize + 1)

\* view(range): the window that starts at data_ + range.first and has
\* range.second - range.first elements, the difference taken in localIdx
viewRange(S, v, lo, hi) ==
    [data |-> S.vec[v].data, first |-> lo, size |-> (hi - lo) % IdxModulus]
\* range(): the pair {0, size()}
range(S, v) == <<0, S.vec[v].size>>
\* data(): the buffer pointer, on any executor
data(S, v) == S.vec[v].data

\* host code executes w[i] = val on a View w. A block in host memory is
\* written. A block in device memory is not addressable by host code in
\* general: the access traps, or (device memory the host can address) it lands.
\* The outcomes, each a store and whether the program trapped.
hostWrite(S, w, i, val) ==
    LET done == [S EXCEPT !.heap[w.data].cells[w.first + i] = val]
    IN IF MemorySpace(S.heap[w.data].exec) = "Host"
       THEN {[store |-> done, trap |-> FALSE]}
       ELSE {[store |-> S, trap |-> TRUE], [store |-> done, trap |-> FALSE]}

\* copyToHost(result): TRUE when the NF_DEBUG_ASSERT on the sizes, compiled
\* only into a debug build, lets the call continue
copyToHostSizeOk(S, src, result, dbg) == ~dbg \/ S.vec[result].size = S.vec[src].size

\* result = copyToExecutor(SerialExecutor()): the copy is the temporary in slot
\* t, destroyed at the end of the statement. The outcomes, each a store and
\* whether operator= reported an error.
copyToHostInto(S, src, result, t) ==
    UNION {IF sameExecutor(T, result, t)
           THEN {[store |-> dtor(U, t), err |-> FALSE] : U \in assignVector(T, result, t)}
           ELSE {[store |-> dtor(T, t), err |-> TRUE]} :
             T \in copyToExecutor(S, t, src, "Serial")}

\* host code: v.view()[i - 1] = val, on a Vector of any executor
HostViewWrite(v, i, val) ==
    /\ Live(v)
    /\ i \in 1..view(Store, v).size
    /\ data(Store, v) # NullPtr
    /\ \E o \in hostWrite(Store, view(Store, v), i, val) :
         /\ vec' = o.store.vec
         /\ heap' = o.store.heap
         /\ badFree' = o.store.bad
         /\ last' = [op |-> "viewWrite", err |-> o.trap]
         /\ UNCHANGED debug
         /\ UNCHANGED asmVars

\* host code: auto w = v.view({lo, hi}), on a Vector of any executor
SubView(v, lo, hi) ==
    /\ Live(v)
    /\ last' = [op |-> "viewRange", err |-> FALSE, of |-> v, first |-> lo, second |-> hi,
                view |-> viewRange(Store, v, lo, hi)]
    /\ UNCHANGED <<vec, heap, badFree, debug>>
    /\ UNCHANGED asmVars

\* src.copyToHost(result)
CopyToHostInto(src, result) ==
    /\ Live(src) /\ Live(result) /\ ~Live(Tmp)
    /\ IF copyToHostSizeOk(Store, src, result, debug)
       THEN \E o \in copyToHostInto(Store, src, result, Tmp) :
              /\ vec' = o.store.vec
              /\ heap' = o.store.heap
              /\ badFree' = o.store.bad
              /\ last' = [op |-> "copyToHost", err |-> o.err]
              /\ UNCHANGED debug
              /\ UNCHANGED asmVars
       ELSE Throw("copyToHost")

\* Two Vectors (slots 1 and 2) of any sizes on any executors, in a debug or a
\* release build; host code writes through views and copies to host.
HostArrays == UNION {[1..n -> Values] : n \in Sizes}

InitHost ==
    /\ AsmIdle
    /\ debug \in BOOLEAN
    /\ badFree = FALSE
    /\ last = [op |-> "init", err |-> FALSE]
    /\ \E ea \in Executors, eb \in Executors, ca \in HostArrays, cb \in HostArrays :
         /\ vec = ArithStore(ea, ca, eb, cb).vec
         /\ heap = ArithStore(ea, ca, eb, cb).heap

NextHost ==
    \/ \E v \in VecIds, i \in 1..MaxSize, val \in Values : HostViewWrite(v, i, val)
    \/ \E src \in VecIds, result \in VecIds : CopyToHostInto(src, result)
    \/ \E v \in VecIds, lo \in IdxValues, hi \in IdxValues : SubView(v, lo, hi)

SpecHost == InitHost /\ [][NextHost]_vars

\* ------------------------------------------------------------- dispatch
\* bounds of the meshes
MaxCells == 2
MaxInternalFaces == 2
MaxBoundaryFaces == 1
MaxCells1D == 3
MaxBoundaryFacesImp == 2
MaxCellsImp == 3
MaxFacesImp == 3
MaxCellsDdt == 2
MaxSchemes == 3
MaxMeshes == 2
MaxUpdates == 2

\* the values of the face and cell data
FluxValues == {-1, 2}
PhiValues == {3}
\* the cell volumes: uniform, or alternating between two sizes
Volumes(nC) == {[c \in 0..(nC - 1) |-> 1], [c \in 0..(nC - 1) |-> 1 + (c % 2)]}
Scalings == {2}

\* the half-open index range {lo, hi} of a dispatch
Range(lo, hi) == lo..(hi - 1)

\* the face and cell indices of all meshes of the model
FaceIndices == Range(0, MaxInternalFaces + MaxBoundaryFaces + MaxCells1D + 1)
CellIndices == Range(0, MaxCells + MaxCells1D + MaxCellsImp)

\* scalar division (the quotients of the model are whole numbers)
divOp(x, y) == fl(x \div y)

\* an iteration of a kernel: at counts the steps it has executed, reg is the
\* value it holds between a read and the write that follows
NewIter == [at |-> 0, reg |-> 0]

\* the dispatches of a call in the order they are issued, their index ranges
\* and the number of steps of one iteration
Kernels(A) ==
    IF A.op = "computeDiv" THEN <<"sumFluxesInternal", "sumFluxesBoundary", "normalizeFluxes">>
    ELSE IF A.op = "computeDivImp" THEN <<"divImpInternal", "divImpBoundary">>
    ELSE IF A.op = "explicitOperation" THEN <<"ddtExplicit">>
    ELSE IF A.op = "implicitOperation" THEN <<"ddtImplicit">>
    ELSE <<>>
KernelRange(A, k) ==
    IF k = "sumFluxesInternal" THEN Range(0, A.nInternalFaces)
    ELSE IF k = "sumFluxesBoundary"
         THEN Range(A.nInternalFaces, A.nInternalFaces + A.nBoundaryFaces)
    ELSE IF k = "normalizeFluxes" THEN Range(0, A.nCells)
    ELSE IF k = "divImpInternal" THEN Range(0, A.nInternalFaces)
    ELSE IF k = "divImpBoundary" THEN Range(A.nInternalFaces, A.sFaceFluxSize)
    ELSE IF k \in {"ddtExplicit", "ddtImplicit"} THEN Range(0, A.nCells)
    ELSE {}
KernelSteps(k) ==
    IF k = "sumFluxesInternal" THEN 2
    ELSE IF k = "sumFluxesBoundary" THEN 1
    ELSE IF k = "normalizeFluxes" THEN 2
    ELSE IF k = "divImpInternal" THEN 6
    ELSE IF k = "divImpBoundary" THEN 4
    ELSE IF k = "ddtExplicit" THEN 2
    ELSE IF k = "ddtImplicit" THEN 4
    ELSE 0
KernelNames(A) == {Kernels(A)[n] : n \in 1..Len(Kernels(A))}
Position(A, k) == CHOOSE n \in 1..Len(Kernels(A)) : Kernels(A)[n] = k
StartIter(A) == [k \in KernelNames(A) |-> [i \in KernelRange(A, k) |-> NewIter]]

Done(I, k, i) == I[k][i].at = KernelSteps(k)
KernelDone(A, I, k) == \A i \in KernelRange(A, k) : Done(I, k, i)
Started(I, k, i) == I[k][i].at > 0
AllDone(A, I) == \A k \in KernelNames(A) : KernelDone(A, I, k)

\* parallelFor(exec, range, kernel), and the loops of the sequential branch:
\* whether iteration i of dispatch k may take its next step.
\* Sequential: the indices in ascending order, one dispatch after the other.
\* HostParallel: the indices in any order; the call returns, and the next
\* dispatch is issued, when all iterations have completed.
\* Accelerator: the kernel is enqueued and the call returns at once; without
\* a barrier nothing orders the iterations of separately issued dispatches.
parallelFor(A, I, k, i) ==
    LET earlierDone == \A n \in 1..(Position(A, k) - 1) : KernelDone(A, I, Kernels(A)[n])
    IN IF A.exec = "Serial"
       THEN earlierDone /\ \A j \in KernelRange(A, k) : j < i => Done(I, k, j)
       ELSE IF A.exec = "CPU" THEN earlierDone
       ELSE TRUE

\* ------------------------------------------------------------- computeDiv
\* (faulty variant: the neighbour cell gains the flux instead of losing it)
sumFluxesInternalGain(A, M, i, it) ==
    LET flux == mulOp(A.faceFlux[i], A.phiF[i])
    IN IF it.at = 0
       THEN [mem |-> [M EXCEPT !.res[A.owner[i]] = addOp(@, flux)],
             it |-> [it EXCEPT !.at = 1]]
       ELSE [mem |-> [M EXCEPT !.res[A.neighbour[i]] = addOp(@, flux)],
             it |-> [it EXCEPT !.at = 2]]

\* (faulty variant: the neighbour cell is updated by a plain -=, whose read
\* happens with the owner's update and whose write happens one step later)
sumFluxesInternalPlain(A, M, i, it) ==
    LET flux == mulOp(A.faceFlux[i], A.phiF[i])
    IN IF it.at = 0
       THEN LET M1 == [M EXCEPT !.res[A.owner[i]] = addOp(@, flux)]
            IN [mem |-> M1, it |-> [at |-> 1, reg |-> M1.res[A.neighbour[i]]]]
       ELSE [mem |-> [M EXCEPT !.res[A.neighbour[i]] = subOp(it.reg, flux)],
             it |-> [at |-> 2, reg |-> 0]]

\* internal face i: flux = faceFlux[i] * phiF[i]; res[owner[i]] += flux;
\* res[neighbour[i]] -= flux (Kokkos::atomic_add, atomic_sub in the parallel
\* branch). The outcome of the next step: the arrays and the iteration.
sumFluxesInternal(A, M, i, it) ==
    LET flux == mulOp(A.faceFlux[i], A.phiF[i])
    IN IF it.at = 0
       THEN [mem |-> [M EXCEPT !.res[A.owner[i]] = addOp(@, flux)],
             it |-> [it EXCEPT !.at = 1]]
       ELSE [mem |-> [M EXCEPT !.res[A.neighbour[i]] = subOp(@, flux)],
             it |-> [it EXCEPT !.at = 2]]

\* the serial branch: the loop over the internal faces from face i on, in
\* ascending order, on the result array r
RECURSIVE serialInternalLoop(_, _, _)
serialInternalLoop(A, r, i) ==
    IF i >= A.nInternalFaces THEN r
    ELSE LET flux == mulOp(A.faceFlux[i], A.phiF[i])
             r1 == [r EXCEPT ![A.owner[i]] = addOp(@, flux)]
             r2 == [r1 EXCEPT ![A.neighbour[i]] = subOp(@, flux)]
         IN serialInternalLoop(A, r2, i + 1)

\* the serial branch: the loop over the boundary faces from face i on
RECURSIVE serialBoundaryLoop(_, _, _)
serialBoundaryLoop(A, r, i) ==
    IF i >= A.nInternalFaces + A.nBoundaryFaces THEN r
    ELSE LET own == A.faceCells[i - A.nInternalFaces]
             valueOwn == mulOp(A.faceFlux[i], A.phiF[i])
         IN serialBoundaryLoop(A, [r EXCEPT ![own] = addOp(@, valueOwn)], i + 1)

\* the two scatter loops of the serial branch, one after the other
serialScatter(A, r) == serialBoundaryLoop(A, serialInternalLoop(A, r, 0), A.nInternalFaces)

\* boundary face i: own = faceCells[i - nInternalFaces]; res[own] += valueOwn
sumFluxesBoundary(A, M, i, it) ==
    LET own == A.faceCells[i - A.nInternalFaces]
        valueOwn == mulOp(A.faceFlux[i], A.phiF[i])
    IN [mem |-> [M EXCEPT !.res[own] = addOp(@, valueOwn)],
        it |-> [it EXCEPT !.at = 1]]

\* cell celli: res[celli] *= operatorScaling[celli] / v[celli], a read of
\* res[celli] followed by a write
normalizeFluxes(A, M, celli, it) ==
    IF it.at = 0
    THEN [mem |-> M, it |-> [at |-> 1, reg |-> M.res[celli]]]
    ELSE [mem |-> [M EXCEPT !.res[celli] =
                      mulOp(it.reg, divOp(A.operatorScaling[celli], A.v[celli]))],
          it |-> [at |-> 2, reg |-> 0]]

\* ------------------------------------------------------------- computeDivImp
\* SparsityPattern: row c of the matrix holds the diagonal of c and one slot
\* per cell sharing a face with c, in the order of the cell indices
Cols(own, nei, nI, c) ==
    {c} \cup {nei[i] : i \in {x \in Range(0, nI) : own[x] = c}}
        \cup {own[i] : i \in {x \in Range(0, nI) : nei[x] = c}}
colOffset(own, nei, nI, c, j) == Cardinality({x \in Cols(own, nei, nI, c) : x < j})
RECURSIVE rowStart(_, _, _, _)
rowStart(own, nei, nI, c) ==
    IF c = 0 THEN 0
    ELSE rowStart(own, nei, nI, c - 1) + Cardinality(Cols(own, nei, nI, c - 1))

\* internal face facei: weight = flux >= 0 ? 1 : 0; value = -weight * flux into
\* the neighbour's row (off-diagonal +=, diagonal of the owner atomic_sub),
\* then value = flux * (1 - weight) into the owner's row (off-diagonal +=,
\* diagonal of the neighbour atomic_sub). A += is a read followed by a write.
divImpInternal(A, M, facei, it) ==
    LET flux == A.sFaceFlux[facei]
        weight == IF flux >= 0 THEN 1 ELSE 0
        own == A.owner[facei]
        nei == A.neighbour[facei]
        rowNeiStart == A.rowOffs[nei]
        rowOwnStart == A.rowOffs[own]
        operatorScalingNei == A.operatorScaling[nei]
        operatorScalingOwn == A.operatorScaling[own]
        upper == mulOp(-weight, flux)
        lower == mulOp(flux, 1 - weight)
    IN CASE it.at = 0 ->
              [mem |-> M, it |-> [at |-> 1, reg |-> M.values[rowNeiStart + A.neiOffs[facei]]]]
         [] it.at = 1 ->
              [mem |-> [M EXCEPT !.values[rowNeiStart + A.neiOffs[facei]] =
                           addOp(it.reg, mulOp(upper, operatorScalingNei))],
               it |-> [at |-> 2, reg |-> 0]]
         [] it.at = 2 ->
              [mem |-> [M EXCEPT !.values[rowOwnStart + A.diagOffs[own]] =
                           subOp(@, mulOp(upper, operatorScalingOwn))],
               it |-> [at |-> 3, reg |-> 0]]
         [] it.at = 3 ->
              [mem |-> M, it |-> [at |-> 4, reg |-> M.values[rowOwnStart + A.ownOffs[facei]]]]
         [] it.at = 4 ->
              [mem |-> [M EXCEPT !.values[rowOwnStart + A.ownOffs[facei]] =
                           addOp(it.reg, mulOp(lower, operatorScalingOwn))],
               it |-> [at |-> 5, reg |-> 0]]
         [] OTHER ->
              [mem |-> [M EXCEPT !.values[rowNeiStart + A.diagOffs[nei]] =
                           subOp(@, mulOp(lower, operatorScalingNei))],
               it |-> [at |-> 6, reg |-> 0]]

\* boundary face facei: bcfacei = facei - nInternalFaces;
\* values[diagonal of own] += flux * operatorScalingOwn * (1 - valueFraction);
\* rhs[own] -= flux * operatorScalingOwn * (valueFraction * refValue).
\* Both are a read followed by a write.
divImpBoundary(A, M, facei, it) ==
    LET bcfacei == facei - A.nInternalFaces
        flux == A.sFaceFlux[facei]
        own == A.surfFaceCells[bcfacei]
        rowOwnStart == A.rowOffs[own]
        operatorScalingOwn == A.operatorScaling[own]
    IN CASE it.at = 0 ->
              [mem |-> M, it |-> [at |-> 1, reg |-> M.values[rowOwnStart + A.diagOffs[own]]]]
         [] it.at = 1 ->
              [mem |-> [M EXCEPT !.values[rowOwnStart + A.diagOffs[own]] =
                           addOp(it.reg, mulOp(mulOp(flux, operatorScalingOwn),
                                               1 - A.valueFraction[bcfacei]))],
               it |-> [at |-> 2, reg |-> 0]]
         [] it.at = 2 ->
              [mem |-> M, it |-> [at |-> 3, reg |-> M.rhs[own]]]
         [] OTHER ->
              [mem |-> [M EXCEPT !.rhs[own] =
                           subOp(it.reg, mulOp(mulOp(flux, operatorScalingOwn),
                                               mulOp(A.valueFraction[bcfacei],
                                                     A.refValue[bcfacei])))],
               it |-> [at |-> 4, reg |-> 0]]

\* ------------------------------------------------------------- assembly actions
\* the Vector operations are not part of an assembly run
VecIdle ==
    /\ vec = [v \in Slots |-> DeadVec]
    /\ heap = [a \in Addrs |-> FreeBlock]
    /\ badFree = FALSE
    /\ debug = FALSE
    /\ last = [op |-> "init", err |-> FALSE]

Runnable(k, i) ==
    /\ k \in KernelNames(args)
    /\ i \in KernelRange(args, k)
    /\ ~Done(iter, k, i)
    /\ parallelFor(args, iter, k, i)

KernelStep(k, i, o) ==
    /\ mem' = o.mem
    /\ iter' = [iter EXCEPT ![k][i] = o.it]
    /\ UNCHANGED args
    /\ UNCHANGED vecVars

SumFluxesInternal(i) ==
    /\ args.op = "computeDiv"
    /\ Runnable("sumFluxesInternal", i)
    /\ KernelStep("sumFluxesInternal", i,
                  sumFluxesInternal(args, mem, i, iter["sumFluxesInternal"][i]))

SumFluxesBoundary(i) ==
    /\ args.op = "computeDiv"
    /\ Runnable("sumFluxesBoundary", i)
    /\ KernelStep("sumFluxesBoundary", i,
                  sumFluxesBoundary(args, mem, i, iter["sumFluxesBoundary"][i]))

NormalizeFluxes(celli) ==
    /\ args.op = "computeDiv"
    /\ Runnable("normalizeFluxes", celli)
    /\ KernelStep("normalizeFluxes", celli,
                  normalizeFluxes(args, mem, celli, iter["normalizeFluxes"][celli]))

\* a call of computeDiv with a zero result array
computeDivCall(e, nC, nI, nB, own, nei, fc, ff, phi, vol, sc) ==
    /\ args = [op |-> "computeDiv", exec |-> e, nCells |-> nC,
               nInternalFaces |-> nI, nBoundaryFaces |-> nB,
               owner |-> own, neighbour |-> nei, faceCells |-> fc,
               faceFlux |-> ff, phiF |-> phi, v |-> vol, operatorScaling |-> sc]
    /\ mem = [res |-> [c \in Range(0, nC) |-> 0]]
    /\ iter = StartIter(args)

\* computeDiv on any executor and any mesh connectivity: every internal face
\* has two different cells
InitDiv ==
    /\ VecIdle
    /\ \E e \in Executors, nC \in 1..MaxCells, nI \in 0..MaxInternalFaces,
          nB \in 0..MaxBoundaryFaces :
         \E own \in [Range(0, nI) -> Range(0, nC)], nei \in [Range(0, nI) -> Range(0, nC)],
            fc \in [Range(0, nB) -> Range(0, nC)],
            ff \in [Range(0, nI + nB) -> FluxValues],
            phi \in [Range(0, nI + nB) -> PhiValues],
            vol \in Volumes(nC), sc \in Scalings :
              /\ \A i \in Range(0, nI) : own[i] # nei[i]
              /\ computeDivCall(e, nC, nI, nB, own, nei, fc, ff, phi, vol,
                                [c \in Range(0, nC) |-> sc])

NextDiv ==
    \/ \E i \in FaceIndices : SumFluxesInternal(i)
    \/ \E i \in FaceIndices : SumFluxesBoundary(i)
    \/ \E celli \in CellIndices : NormalizeFluxes(celli)

SpecDiv == InitDiv /\ [][NextDiv]_vars

\* computeDiv on the one-dimensional mesh of N cells: internal face k has
\* owner k and neighbour k + 1, the two boundary faces belong to the first and
\* the last cell; unit flux and unit face value on every face
Mesh1D(N) ==
    [nCells |-> N, nInternalFaces |-> N - 1, nBoundaryFaces |-> 2,
     owner |-> [k \in Range(0, N - 1) |-> k],
     neighbour |-> [k \in Range(0, N - 1) |-> k + 1],
     faceCells |-> [j \in Range(0, 2) |-> IF j = 0 THEN 0 ELSE N - 1]]

InitDiv1D ==
    /\ VecIdle
    /\ \E e \in Executors, N \in 1..MaxCells1D :
         \E vol \in Volumes(N), sc \in Scalings :
            computeDivCall(e, N, Mesh1D(N).nInternalFaces, Mesh1D(N).nBoundaryFaces,
                           Mesh1D(N).owner, Mesh1D(N).neighbour, Mesh1D(N).faceCells,
                           [i \in Range(0, N + 1) |-> 1], [i \in Range(0, N + 1) |-> 1],
                           vol, [c \in Range(0, N) |-> sc])

SpecDiv1D == InitDiv1D /\ [][NextDiv]_vars

\* ------------------------------------------------------------- computeDivImp runs
DivImpInternal(facei) ==
    /\ args.op = "computeDivImp"
    /\ Runnable("divImpInternal", facei)
    /\ KernelStep("divImpInternal", facei,
                  divImpInternal(args, mem, facei, iter["divImpInternal"][facei]))

DivImpBoundary(facei) ==
    /\ args.op = "computeDivImp"
    /\ Runnable("divImpBoundary", facei)
    /\ KernelStep("divImpBoundary", facei,
                  divImpBoundary(args, mem, facei, iter["divImpBoundary"][facei]))

\* the per-cell scaling: uniform, or growing with the cell index
Coeffs(nC) == {[c \in Range(0, nC) |-> 2], [c \in Range(0, nC) |-> c + 1]}
\* the blend fraction and the reference value of a boundary face
ValueFractions == {0, 1}
RefValues == {3}
\* the flux through a boundary face
BoundaryFluxValues == {2}

\* a call of computeDivImp on a zero linear system
computeDivImpCall(e, nC, nI, nB, own, nei, fc, ff, sc, vf, rv) ==
    /\ args = [op |-> "computeDivImp", exec |-> e, nCells |-> nC,
               nInternalFaces |-> nI, sFaceFluxSize |-> nI + nB,
               sFaceFlux |-> ff, owner |-> own, neighbour |-> nei, surfFaceCells |-> fc,
               rowOffs |-> [c \in Range(0, nC) |-> rowStart(own, nei, nI, c)],
               diagOffs |-> [c \in Range(0, nC) |-> colOffset(own, nei, nI, c, c)],
               ownOffs |-> [i \in Range(0, nI) |-> colOffset(own, nei, nI, own[i], nei[i])],
               neiOffs |-> [i \in Range(0, nI) |-> colOffset(own, nei, nI, nei[i], own[i])],
               operatorScaling |-> sc, valueFraction |-> vf, refValue |-> rv]
    /\ mem = [values |-> [p \in Range(0, rowStart(own, nei, nI, nC)) |-> 0],
              rhs |-> [c \in Range(0, nC) |-> 0]]
    /\ iter = StartIter(args)

\* the meshes: every internal face has two different cells and no two
\* internal faces join the same pair of cells, so that every face has a slot
\* of its own in the rows of its two cells
ImpMeshes(nC, nI) ==
    {m \in [owner : [Range(0, nI) -> Range(0, nC)],
            neighbour : [Range(0, nI) -> Range(0, nC)]] :
        /\ \A i \in Range(0, nI) : m.owner[i] # m.neighbour[i]
        /\ \A i \in Range(0, nI), j \in Range(0, nI) :
              i # j => {m.owner[i], m.neighbour[i]} # {m.owner[j], m.neighbour[j]}}

\* computeDivImp on any executor and any mesh of at most MaxCellsImp cells
\* and MaxFacesImp faces: with three cells two internal faces share a cell
\* (a diagonal slot) and run concurrently on the parallel executors
InitDivImp ==
    /\ VecIdle
    /\ \E e \in Executors, nC \in 1..MaxCellsImp, nI \in 0..MaxInternalFaces,
          nB \in 0..MaxBoundaryFacesImp :
         /\ nI + nB <= MaxFacesImp
         /\ \E m \in ImpMeshes(nC, nI) :
              \E fc \in [Range(0, nB) -> Range(0, nC)],
                 ffI \in [Range(0, nI) -> FluxValues],
                 ffB \in [Range(nI, nI + nB) -> BoundaryFluxValues],
                 sc \in Coeffs(nC),
                 vf \in [Range(0, nB) -> ValueFractions], rv \in [Range(0, nB) -> RefValues] :
                   computeDivImpCall(e, nC, nI, nB, m.owner, m.neighbour, fc,
                                     [i \in Range(0, nI + nB) |->
                                        IF i < nI THEN ffI[i] ELSE ffB[i]],
                                     sc, vf, rv)

NextDivImp ==
    \/ \E facei \in FaceIndices : DivImpInternal(facei)
    \/ \E facei \in FaceIndices : DivImpBoundary(facei)

SpecDivImp == InitDivImp /\ [][NextDivImp]_vars

\* ------------------------------------------------------------- DdtOperator
\* the reciprocal 1.0 / dt of a step size dt = num / den
dtInver(dt) == divOp(mulOp(1, dt.den), dt.num)

\* (faulty variant: the difference is taken as old minus current)
ddtExplicitReversed(A, M, celli, it) ==
    IF it.at = 0
    THEN [mem |-> M, it |-> [at |-> 1, reg |-> M.source[celli]]]
    ELSE [mem |-> [M EXCEPT !.source[celli] =
                      addOp(it.reg, mulOp(mulOp(dtInver(A.dt),
                                                subOp(A.oldField[celli], A.field[celli])),
                                          A.vol[celli]))],
          it |-> [at |-> 2, reg |-> 0]]

\* explicit operation, cell celli:
\* source[celli] += dtInver * (field[celli] - oldField[celli]) * vol[celli]
ddtExplicit(A, M, celli, it) ==
    IF it.at = 0
    THEN [mem |-> M, it |-> [at |-> 1, reg |-> M.source[celli]]]
    ELSE [mem |-> [M EXCEPT !.source[celli] =
                      addOp(it.reg, mulOp(mulOp(dtInver(A.dt),
                                                subOp(A.field[celli], A.oldField[celli])),
                                          A.vol[celli]))],
          it |-> [at |-> 2, reg |-> 0]]

\* implicit operation, cell celli: with coefficient vol[celli] * dtInver,
\* values[diagonal slot of celli] += coefficient and
\* rhs[celli] += coefficient * oldField[celli]
ddtImplicit(A, M, celli, it) ==
    LET idx == A.rowOffs[celli] + A.diagOffs[celli]
        commonCoef == mulOp(A.vol[celli], dtInver(A.dt))
    IN CASE it.at = 0 -> [mem |-> M, it |-> [at |-> 1, reg |-> M.values[idx]]]
         [] it.at = 1 -> [mem |-> [M EXCEPT !.values[idx] = addOp(it.reg, commonCoef)],
                          it |-> [at |-> 2, reg |-> 0]]
         [] it.at = 2 -> [mem |-> M, it |-> [at |-> 3, reg |-> M.rhs[celli]]]
         [] OTHER -> [mem |-> [M EXCEPT !.rhs[celli] =
                                  addOp(it.reg, mulOp(commonCoef, A.oldField[celli]))],
                      it |-> [at |-> 4, reg |-> 0]]

DdtExplicit(celli) ==
    /\ args.op = "explicitOperation"
    /\ Runnable("ddtExplicit", celli)
    /\ KernelStep("ddtExplicit", celli, ddtExplicit(args, mem, celli, iter["ddtExplicit"][celli]))

DdtImplicit(celli) ==
    /\ args.op = "implicitOperation"
    /\ Runnable("ddtImplicit", celli)
    /\ KernelStep("ddtImplicit", celli, ddtImplicit(args, mem, celli, iter["ddtImplicit"][celli]))

\* the field values at the current and the previous time, the step sizes
\* (0.5 and 1) and the cell volumes
FieldValues == {10, 4}
OldFieldValues == {-1, 2}
TimeSteps == {[num |-> 1, den |-> 2], [num |-> 1, den |-> 1]}
CellVolumes == {1, 3}

\* a DdtOperator on a mesh of nC cells without internal faces (the
\* single-cell mesh for nC = 1), applied to a zero source or to an empty
\* linear system, whose matrix has one diagonal slot per cell
ddtCall(o, e, nC, phi, old, dt, vol) ==
    /\ args = [op |-> o, exec |-> e, nCells |-> nC,
               field |-> [c \in Range(0, nC) |-> phi],
               oldField |-> [c \in Range(0, nC) |-> old],
               dt |-> dt, vol |-> [c \in Range(0, nC) |-> vol],
               rowOffs |-> [c \in Range(0, nC) |-> c],
               diagOffs |-> [c \in Range(0, nC) |-> 0]]
    /\ mem = IF o = "explicitOperation"
             THEN [source |-> [c \in Range(0, nC) |-> 0]]
             ELSE [values |-> [p \in Range(0, nC) |-> 0], rhs |-> [c \in Range(0, nC) |-> 0]]
    /\ iter = StartIter(args)

InitDdt ==
    /\ VecIdle
    /\ \E o \in {"explicitOperation", "implicitOperation"}, e \in Executors,
          nC \in 1..MaxCellsDdt, phi \in FieldValues, old \in OldFieldValues,
          dt \in TimeSteps, vol \in CellVolumes :
            ddtCall(o, e, nC, phi, old, dt, vol)

NextDdt ==
    \/ \E celli \in CellIndices : DdtExplicit(celli)
    \/ \E celli \in CellIndices : DdtImplicit(celli)

SpecDdt == InitDdt /\ [][NextDdt]_vars

\* ------------------------------------------------------------- BackwardEuler::solve
\* The statements of solve in program order. Statement n of the body is at
\* position n; args holds the executors of the equation and of the solution
\* vector, mem the statements executed so far and the state of the kernels
\* they issued, iter the position of the caller in solve.
SolveReturned == 7

\* (faulty variant: solve returns after the linear solve without a fence)
solveNextNoFence(A, pc) ==
    CASE pc = 0 -> [stmt |-> "explicitOperation", exec |-> A.eqnExec, pc |-> 1]
      [] pc = 1 -> [stmt |-> "createEmptyLinearSystem", exec |-> A.vecExec, pc |-> 2]
      [] pc = 2 -> [stmt |-> "implicitOperation(ls)", exec |-> A.eqnExec, pc |-> 3]
      [] pc = 3 -> [stmt |-> "implicitOperation(ls, t, dt)", exec |-> A.eqnExec, pc |-> 4]
      [] pc = 4 -> [stmt |-> "solve", exec |-> A.vecExec, pc |-> 5]
      [] OTHER -> [stmt |-> "return", exec |-> "Serial", pc |-> SolveReturned]

\* the statement at position pc, the executor it works on, and the position
\* after it: the fence is executed only if the executor of the equation is
\* the GPU executor
solveNext(A, pc) ==
    CASE pc = 0 -> [stmt |-> "explicitOperation", exec |-> A.eqnExec, pc |-> 1]
      [] pc = 1 -> [stmt |-> "createEmptyLinearSystem", exec |-> A.vecExec, pc |-> 2]
      [] pc = 2 -> [stmt |-> "implicitOperation(ls)", exec |-> A.eqnExec, pc |-> 3]
      [] pc = 3 -> [stmt |-> "implicitOperation(ls, t, dt)", exec |-> A.eqnExec, pc |-> 4]
      [] pc = 4 -> [stmt |-> "solve", exec |-> A.vecExec, pc |-> 5]
      [] pc = 5 -> IF A.eqnExec = "GPU"
                   THEN [stmt |-> "fence", exec |-> "GPU", pc |-> 6]
                   ELSE [stmt |-> "return", exec |-> "Serial", pc |-> SolveReturned]
      [] OTHER -> [stmt |-> "return", exec |-> "Serial", pc |-> SolveReturned]

\* the statements that dispatch kernels on their executor
SolveKernels ==
    {"explicitOperation", "createEmptyLinearSystem", "implicitOperation(ls)",
     "implicitOperation(ls, t, dt)", "solve"}

\* a dispatch on executor e: enqueued on the GPU executor, completed when the
\* call returns on the others
dispatched(e) == IF e = "GPU" THEN "queued" ELSE "done"

\* Kokkos::fence() returns once no kernel is queued or running
fence(K) == \A k \in DOMAIN K : K[k] \in {"none", "done"}

\* one statement of solve that dispatches kernels
SolveStatement ==
    /\ args.op = "solve"
    /\ iter.pc < SolveReturned
    /\ LET n == solveNext(args, iter.pc)
       IN /\ n.stmt \in SolveKernels
          /\ mem' = [steps |-> Append(mem.steps, n.stmt),
                     kernels |-> [mem.kernels EXCEPT ![n.stmt] = dispatched(n.exec)]]
          /\ iter' = [pc |-> n.pc]
    /\ UNCHANGED args
    /\ UNCHANGED vecVars

\* the fence: the caller passes it when the device has no work left
SolveFence ==
    /\ args.op = "solve"
    /\ iter.pc < SolveReturned
    /\ LET n == solveNext(args, iter.pc)
       IN /\ n.stmt = "fence"
          /\ fence(mem.kernels)
          /\ mem' = [mem EXCEPT !.steps = Append(@, n.stmt)]
          /\ iter' = [pc |-> n.pc]
    /\ UNCHANGED args
    /\ UNCHANGED vecVars

\* the end of the body
SolveReturn ==
    /\ args.op = "solve"
    /\ iter.pc < SolveReturned
    /\ LET n == solveNext(args, iter.pc)
       IN /\ n.stmt = "return"
          /\ iter' = [pc |-> n.pc]
    /\ UNCHANGED <<args, mem>>
    /\ UNCHANGED vecVars

\* the device starts a queued kernel, in any order
KernelStart(k) ==
    /\ args.op = "solve"
    /\ mem.kernels[k] = "queued"
    /\ mem' = [mem EXCEPT !.kernels[k] = "running"]
    /\ UNCHANGED <<args, iter>>
    /\ UNCHANGED vecVars

\* a running kernel completes
KernelFinish(k) ==
    /\ args.op = "solve"
    /\ mem.kernels[k] = "running"
    /\ mem' = [mem EXCEPT !.kernels[k] = "done"]
    /\ UNCHANGED <<args, iter>>
    /\ UNCHANGED vecVars

\* a call of solve for an equation and a solution vector on any executors
InitSolve ==
    /\ VecIdle
    /\ \E ee \in Executors, ve \in Executors :
          args = [op |-> "solve", eqnExec |-> ee, vecExec |-> ve]
    /\ mem = [steps |-> <<>>, kernels |-> [k \in SolveKernels |-> "none"]]
    /\ iter = [pc |-> 0]

NextSolve ==
    \/ SolveStatement
    \/ SolveFence
    \/ SolveReturn
    \/ \E k \in SolveKernels : KernelStart(k)
    \/ \E k \in SolveKernels : KernelFinish(k)

SpecSolve == InitSolve /\ [][NextSolve]_vars

\* ------------------------------------------------------------- GeometryScheme
\* mem holds the GeometryScheme objects (per id the kernel_ member, the mesh
\* and the number of update() calls made through the public interface), the
\* calls made on kernels, whether the process has exited with a fatal error,
\* and per mesh its stencil database entry "GeometryScheme" (0: absent), the
\* number of schemes readOrCreate built for it and the instances it returned.
SchemeIds == 1..MaxSchemes
Meshes == 1..MaxMeshes
NoScheme == [kernel |-> "none", mesh |-> 0, updates |-> 0]

\* update(): the three calls on kernel_
update(kernel) ==
    {[method |-> "updateWeights", kernel |-> kernel],
     [method |-> "updateDeltaCoeffs", kernel |-> kernel],
     [method |-> "updateNonOrthDeltaCoeffs", kernel |-> kernel]}

\* (faulty variant: the mesh-based constructors call update() before the
\* check of kernel_)
GeometrySchemeUpdateFirst(ctor, kernel) ==
    LET kernel_ == IF ctor = "mesh" THEN "basic" ELSE kernel
    IN [fatal |-> kernel_ = "null",
        kernel |-> kernel_,
        calls |-> IF ctor = "exec, kernel, fields" THEN {} ELSE update(kernel_)]

\* the three constructors: "exec, kernel, fields" and "exec, mesh, kernel"
\* take the kernel from the caller, "mesh" makes a BasicGeometryScheme; each
\* exits with a fatal error if kernel_ is null, and the two mesh-based ones
\* then call update()
GeometryScheme(ctor, kernel) ==
    LET kernel_ == IF ctor = "mesh" THEN "basic" ELSE kernel
    IN IF kernel_ = "null"
       THEN [fatal |-> TRUE, kernel |-> kernel_, calls |-> {}]
       ELSE [fatal |-> FALSE, kernel |-> kernel_,
             calls |-> IF ctor = "exec, kernel, fields" THEN {} ELSE update(kernel_)]

\* the stencil database of a mesh: contains, insert and get of one key
contains(db, m) == db[m] # 0
insert(db, m, id) == [db EXCEPT ![m] = id]
get(db, m) == db[m]

\* (faulty variant: a scheme is built and inserted on every call)
readOrCreateRebuild(db, m, fresh) ==
    LET stencilDb == insert(db, m, fresh)
    IN [db |-> stencilDb, built |-> TRUE, ret |-> get(stencilDb, m)]

\* readOrCreate on mesh m, with fresh the identity a newly made shared object
\* would get: the database after the call, whether a scheme was built, and
\* the instance returned
readOrCreate(db, m, fresh) ==
    LET stencilDb == IF ~contains(db, m) THEN insert(db, m, fresh) ELSE db
    IN [db |-> stencilDb, built |-> ~contains(db, m), ret |-> get(stencilDb, m)]

\* the identity of the next object, MaxSchemes + 1 if none is left
FreshScheme(M) ==
    IF \E id \in SchemeIds : M.schemes[id] = NoScheme
    THEN CHOOSE id \in SchemeIds :
            /\ M.schemes[id] = NoScheme
            /\ \A j \in SchemeIds : M.schemes[j] = NoScheme => id <= j
    ELSE MaxSchemes + 1

\* the state after a constructor call on mesh m with outcome c: the object
\* exists only if the constructor did not exit
constructed(M, m, c) ==
    [M EXCEPT !.schemes = IF c.fatal THEN @
                          ELSE [@ EXCEPT ![FreshScheme(M)] =
                                   [kernel |-> c.kernel, mesh |-> m, updates |-> 0]],
              !.calls = @ \cup c.calls,
              !.fatal = c.fatal]

\* a constructor call from user code
Construct(ctor, kernel, m) ==
    /\ args.op = "GeometryScheme"
    /\ ~mem.fatal
    /\ FreshScheme(mem) \in SchemeIds
    /\ mem' = constructed(mem, m, GeometryScheme(ctor, kernel))
    /\ UNCHANGED <<args, iter>>
    /\ UNCHANGED vecVars

\* a call of update() on an existing scheme
Update(id) ==
    /\ args.op = "GeometryScheme"
    /\ ~mem.fatal
    /\ mem.schemes[id] # NoScheme
    /\ mem.schemes[id].updates < MaxUpdates
    /\ mem' = [mem EXCEPT !.schemes[id].updates = @ + 1,
                          !.calls = @ \cup update(mem.schemes[id].kernel)]
    /\ UNCHANGED <<args, iter>>
    /\ UNCHANGED vecVars

\* a call of GeometryScheme::readOrCreate(mesh)
ReadOrCreate(m) ==
    /\ args.op = "GeometryScheme"
    /\ ~mem.fatal
    /\ LET r == readOrCreate(mem.db, m, FreshScheme(mem))
           M1 == IF r.built THEN constructed(mem, m, GeometryScheme("mesh", "null")) ELSE mem
       IN /\ r.built => FreshScheme(mem) \in SchemeIds
          /\ mem' = [M1 EXCEPT !.db = r.db,
                               !.built[m] = @ + (IF r.built THEN 1 ELSE 0),
                               !.returned[m] = @ \cup {r.ret}]
    /\ UNCHANGED <<args, iter>>
    /\ UNCHANGED vecVars

InitGeom ==
    /\ VecIdle
    /\ args = [op |-> "GeometryScheme"]
    /\ mem = [schemes |-> [id \in SchemeIds |-> NoScheme], calls |-> {}, fatal |-> FALSE,
              db |-> [m \in Meshes |-> 0], built |-> [m \in Meshes |-> 0],
              returned |-> [m \in Meshes |-> {}]]
    /\ iter = NoCall

NextGeom ==
    \/ \E ctor \in {"exec, kernel, fields", "exec, mesh, kernel"},
          kernel \in {"null", "given"}, m \in Meshes : Construct(ctor, kernel, m)
    \/ \E m \in Meshes : Construct("mesh", "null", m)
    \/ \E id \in SchemeIds : Update(id)
    \/ \E m \in Meshes : ReadOrCreate(m)

SpecGeom == InitGeom /\ [][NextGeom]_vars

\* ------------------------------------------------------------- claims
\* C1: no two live Vectors hold the same non-null buffer.
C1_NoAliasing ==
    \A v \in Slots, w \in Slots :
        (v # w /\ vec[v].live /\ vec[w].live /\ vec[v].data # NullPtr)
            => vec[v].data # vec[w].data

\* C1 witness: a same-executor copyToExecutor has just produced a second
\* non-empty Vector next to its source.
C1_Witness ==
    /\ last.op = "copyToExecutor"
    /\ vec[1].live /\ vec[2].live
    /\ vec[1].exec = vec[2].exec
    /\ vec[1].data # NullPtr /\ vec[2].data # NullPtr
    /\ Contents(1) = Contents(2)

\* C2: for every live Vector the buffer pointer is null iff size is 0.
C2_NullIffEmpty ==
    \A v \in Slots : vec[v].live => (vec[v].data = NullPtr <=> vec[v].size = 0)

\* C3: every allocated block is the buffer of a live Vector (so nothing stays
\* allocated once all Vectors are destroyed), it was allocated by that
\* Vector's executor, and no free ever hit a block that was not allocated.
C3_NoLeakNoDoubleFree ==
    /\ ~badFree
    /\ \A a \in Addrs : heap[a].alloc =>
          \E v \in Slots : vec[v].live /\ vec[v].data = a /\ vec[v].exec = heap[a].exec

\* C4: move construction transfers buffer, size and executor without touching
\* the executor's memory, empties the source, and the destructor of the
\* moved-from source then releases nothing.
C4_MoveStep ==
    \A v \in VecIds, r \in VecIds :
        MoveConstruct(v, r) =>
            /\ vec'[v].data = vec[r].data
            /\ vec'[v].size = vec[r].size
            /\ vec'[v].exec = vec[r].exec
            /\ vec'[r].live /\ vec'[r].size = 0 /\ vec'[r].data = NullPtr
            /\ heap' = heap
            /\ dtor([vec |-> vec', heap |-> heap', bad |-> badFree'], r).heap = heap'
            /\ ~dtor([vec |-> vec', heap |-> heap', bad |-> badFree'], r).bad
\* C4: every move construction step satisfies the above.
C4_Move == [][last'.op = "moveCtor" => C4_MoveStep]_vars

\* C4 witness: a non-empty Vector was just move-constructed; its source is empty.
C4_Witness ==
    /\ last.op = "moveCtor"
    /\ \E v \in VecIds, r \in VecIds :
         /\ v # r /\ vec[v].live /\ vec[r].live
         /\ vec[v].size > 0 /\ vec[v].data # NullPtr
         /\ vec[r].size = 0 /\ vec[r].data = NullPtr

\* C5: a copy (copy constructor, copyToExecutor to the source's executor) has
\* the executor, size and values of the source in storage of its own, and a
\* write to one Vector changes no element of any other.
C5_CopyPost(v, r) ==
    /\ vec'[v].live
    /\ vec'[v].exec = vec[r].exec
    /\ vec'[v].size = vec[r].size
    /\ Cells([vec |-> vec', heap |-> heap'], v) = Contents(r)
    /\ vec'[r] = vec[r]
    /\ Cells([vec |-> vec', heap |-> heap'], r) = Contents(r)
    /\ (vec'[v].data # vec'[r].data \/ (vec'[v].data = NullPtr /\ vec'[r].size = 0))
C5_WriteFrame(v) ==
    \A w \in Slots \ {v} :
        vec[w].live => (vec'[w] = vec[w] /\ Cells([vec |-> vec', heap |-> heap'], w) = Contents(w))
C5_CopyStep ==
    \A v \in VecIds, r \in VecIds :
        (CopyConstruct(v, r) \/ CopyToExecutor(v, r, vec[r].exec)) => C5_CopyPost(v, r)
C5_WriteStep ==
    \A v \in VecIds :
        ((\E val \in Values : AssignValue(v, val))
           \/ (\E i \in 1..MaxSize, val \in Values : WriteElem(v, i, val))
           \/ (\E r \in VecIds : AssignVector(v, r)))
        => C5_WriteFrame(v)
\* C5: every copy step yields an independent equal copy, every write step
\* leaves all other Vectors as they were.
C5_IndependentCopy ==
    [][/\ last'.op \in {"copyCtor", "copyToExecutor"} => C5_CopyStep
       /\ last'.op \in {"assignValue", "writeElem", "assignVector"} => C5_WriteStep]_vars

\* C5 witness: a same-executor copy of a Vector of full size was just made:
\* same executor, size and values, storage of its own.
C5_Witness ==
    /\ last.op \in {"copyCtor", "copyToExecutor"}
    /\ vec[1].live /\ vec[2].live
    /\ vec[1].exec = vec[2].exec
    /\ vec[1].size = MaxSize
    /\ vec[1].data # vec[2].data
    /\ Contents(1) = Contents(2)

\* C6: v.copyToExecutor(B).copyToExecutor(A) has the size and the elements of
\* v, lives on A, and v is unchanged.
C6_Step ==
    \A v \in VecIds, r \in VecIds, e \in Executors :
        RoundTrip(v, Tmp, r, e) =>
            /\ vec'[v].live
            /\ vec'[v].exec = vec[r].exec
            /\ vec'[v].size = vec[r].size
            /\ Cells([vec |-> vec', heap |-> heap'], v) = Contents(r)
            /\ vec'[r] = vec[r]
            /\ Cells([vec |-> vec', heap |-> heap'], r) = Contents(r)
\* C6: every round trip step reproduces v exactly and leaves v unchanged.
C6_RoundTrip == [][last'.op = "roundTrip" => C6_Step]_vars

\* C6 witness: a round trip of a Vector of full size has produced its copy.
C6_Witness ==
    /\ last.op = "roundTrip"
    /\ vec[1].live /\ vec[2].live
    /\ vec[1].size = MaxSize /\ vec[2].size = MaxSize
    /\ Contents(1) = Contents(2)
    /\ Contents(1)[1] # Contents(1)[MaxSize]

\* C7: dst = rhs on one executor leaves dst with the size and elements of rhs,
\* rhs and the executor of dst unchanged; on different executors it reports an
\* error and dst keeps size and contents.
C7_Step ==
    \A d \in VecIds, r \in VecIds :
        AssignVector(d, r) =>
            IF vec[d].exec = vec[r].exec
            THEN /\ ~last'.err
                 /\ vec'[d].size = vec[r].size
                 /\ Cells([vec |-> vec', heap |-> heap'], d) = Contents(r)
                 /\ vec'[d].exec = vec[d].exec
                 /\ vec'[r].size = vec[r].size /\ vec'[r].exec = vec[r].exec
                 /\ Cells([vec |-> vec', heap |-> heap'], r) = Contents(r)
            ELSE /\ last'.err
                 /\ vec' = vec
                 /\ heap' = heap
\* C7: every assign-from-vector step either copies size and elements or, on
\* different executors, reports an error and changes nothing.
C7_AssignVector == [][last'.op = "assignVector" => C7_Step]_vars

\* C7 witness: an assignment between two Vectors of full size on one executor
\* was carried out and left them equal, each in its own buffer.
C7_Witness ==
    /\ last = [op |-> "assignVector", err |-> FALSE]
    /\ vec[1].live /\ vec[2].live /\ vec[1].exec = vec[2].exec
    /\ vec[1].size = MaxSize /\ vec[2].size = MaxSize
    /\ vec[1].data # vec[2].data
    /\ Contents(1) = Contents(2)
    /\ Contents(1)[1] # Contents(1)[MaxSize]

\* C8: +=, -=, *= and binary * by a Vector of another size or on
\* another executor report an error and leave both operands unchanged, in a
\* debug and in a release build.
C8_Mismatch(a, b) == vec[a].size # vec[b].size \/ vec[a].exec # vec[b].exec
C8_Step ==
    \A a \in VecIds, b \in VecIds :
        (C8_Mismatch(a, b)
           /\ (PlusAssign(a, b) \/ MinusAssign(a, b) \/ MulAssign(a, b) \/ OperatorMul(Tmp, a, b)))
        => (last'.err /\ vec' = vec /\ heap' = heap)
\* C8: every arithmetic step on mismatched operands reports an error and
\* changes nothing, in both build modes.
C8_ValidationReported == [][C8_Step]_vars

\* C9: for a and b of one size on one executor, a + b has that size and
\* elements a[i] + b[i], and a + b and a - b leave a and b unchanged.
C9_SameShape(a, b) == vec[a].size = vec[b].size /\ vec[a].exec = vec[b].exec
C9_OperandsKept(a, b) ==
    /\ vec'[a] = vec[a] /\ vec'[b] = vec[b]
    /\ Cells([vec |-> vec', heap |-> heap'], a) = Contents(a)
    /\ Cells([vec |-> vec', heap |-> heap'], b) = Contents(b)
C9_SumStep ==
    \A a \in VecIds, b \in VecIds :
        /\ (C9_SameShape(a, b) /\ OperatorPlus(Tmp, a, b)) =>
              /\ ~last'.err
              /\ vec'[Tmp].size = vec[a].size
              /\ vec'[Tmp].exec = vec[a].exec
              /\ Len(Cells([vec |-> vec', heap |-> heap'], Tmp)) = vec[a].size
              /\ \A i \in 1..vec[a].size :
                    Cells([vec |-> vec', heap |-> heap'], Tmp)[i]
                        = addOp(Contents(a)[i], Contents(b)[i])
              /\ C9_OperandsKept(a, b)
        /\ (C9_SameShape(a, b) /\ (OperatorMinus(Tmp, a, b) \/ PlusMinus(Tmp, a, b))) =>
              /\ ~last'.err
              /\ vec'[Tmp].size = vec[a].size
              /\ C9_OperandsKept(a, b)
\* (a + b) - b is elementwise exactly a
C9_ExactStep ==
    \A a \in VecIds, b \in VecIds :
        (C9_SameShape(a, b) /\ PlusMinus(Tmp, a, b)) =>
            Cells([vec |-> vec', heap |-> heap'], Tmp) = Contents(a)
\* (a + b) - b is elementwise a within 3 * 2^-24 * (|a[i]| + |b[i]|)
C9_TolerantStep ==
    \A a \in VecIds, b \in VecIds :
        (C9_SameShape(a, b) /\ PlusMinus(Tmp, a, b)) =>
            \A i \in 1..vec[a].size :
                Abs(Cells([vec |-> vec', heap |-> heap'], Tmp)[i] - Contents(a)[i])
                    <= (3 * (Abs(Contents(a)[i]) + Abs(Contents(b)[i]))) \div Mant
\* C9 with exact equality: a + b is elementwise the sum, the operands are
\* unchanged, and (a + b) - b is elementwise exactly a.
C9_Exact ==
    [][last'.op \in {"operatorPlus", "operatorMinus", "plusMinus"} => (C9_SumStep /\ C9_ExactStep)]_vars
\* C9 with tolerance: a + b is elementwise the sum, the operands are unchanged,
\* and (a + b) - b is elementwise a within floating-point tolerance.
C9_Tolerant ==
    [][last'.op \in {"operatorPlus", "operatorMinus", "plusMinus"} => (C9_SumStep /\ C9_TolerantStep)]_vars

\* C9 witness: (a + b) - b was evaluated for a # b of full size on one
\* executor, where a[1] + b[1] had to be rounded.
C9_Witness ==
    /\ last = [op |-> "plusMinus", err |-> FALSE]
    /\ vec[1].live /\ vec[2].live /\ vec[Tmp].live
    /\ vec[1].exec = vec[2].exec
    /\ vec[1].size = MaxSize /\ vec[2].size = MaxSize /\ vec[Tmp].size = MaxSize
    /\ Contents(1)[1] + Contents(2)[1] # fl(Contents(1)[1] + Contents(2)[1])
    /\ Contents(1)[1] < Contents(2)[1]

\* C10: Vector(exec, N, v) and assign-from-value v leave a Vector of size N on
\* its executor whose N elements, also once copied to the host, all equal v.
AllEqual(c, n, val) == Len(c) = n /\ \A i \in 1..n : c[i] = val
HostCopyAllEqual(S, v, n, val) ==
    \A T \in copyToExecutor(S, Tmp, v, "Serial") : AllEqual(Cells(T, Tmp), n, val)
C10_Step ==
    /\ \A v \in VecIds, e \in Executors, n \in Sizes, val \in Values :
          ConstructFilled(v, e, n, val) =>
              /\ vec'[v].size = n /\ vec'[v].exec = e
              /\ AllEqual(Cells([vec |-> vec', heap |-> heap'], v), n, val)
              /\ HostCopyAllEqual([vec |-> vec', heap |-> heap', bad |-> badFree'], v, n, val)
    /\ \A v \in VecIds, val \in Values :
          AssignValue(v, val) =>
              /\ vec'[v].size = vec[v].size /\ vec'[v].exec = vec[v].exec
              /\ AllEqual(Cells([vec |-> vec', heap |-> heap'], v), vec[v].size, val)
              /\ HostCopyAllEqual([vec |-> vec', heap |-> heap', bad |-> badFree'], v, vec[v].size, val)
\* C10: every filling construction and every assign-from-value step leaves
\* size N and N elements equal to v.
C10_Filled == [][last'.op \in {"ctorFilled", "assignValue"} => C10_Step]_vars

\* C10 witness: a Vector of full size on the GPU executor was just filled.
C10_Witness ==
    /\ last.op \in {"ctorFilled", "assignValue"}
    /\ \E v \in VecIds :
         /\ vec[v].live /\ vec[v].exec = "GPU" /\ vec[v].size = MaxSize
         /\ \A i \in 1..MaxSize : Contents(v)[i] = MaxVal

\* C11: resize(n) leaves size n and the executor unchanged. A non-empty Vector
\* is reallocated through its executor: the elements below min(old size, n)
\* keep their values, and the old block is either the new buffer or released.
\* An empty Vector gets a fresh allocation: no allocated block is touched.
C11_Step ==
    \A v \in VecIds, n \in Sizes :
        Resize(v, n) =>
            /\ ~last'.err
            /\ vec'[v].size = n
            /\ vec'[v].exec = vec[v].exec
            /\ vec'[v].data # NullPtr =>
                  /\ heap'[vec'[v].data].alloc
                  /\ heap'[vec'[v].data].exec = vec[v].exec
                  /\ Len(heap'[vec'[v].data].cells) = n
            /\ IF vec[v].size # 0
               THEN /\ \A i \in 1..Min(vec[v].size, n) :
                         heap'[vec'[v].data].cells[i] = Contents(v)[i]
                    /\ vec'[v].data = vec[v].data \/ ~heap'[vec[v].data].alloc
                    /\ n > 0 => vec'[v].data # NullPtr
               ELSE /\ \A a \in Addrs : heap[a].alloc => heap'[a] = heap[a]
                    /\ n > 0 => (vec'[v].data # NullPtr /\ ~heap[vec'[v].data].alloc)
                    /\ n = 0 => vec'[v].data = NullPtr
\* C11: every resize step satisfies the above.
C11_Resize == [][last'.op = "resize" => C11_Step]_vars

\* C11 witness: a resize has just left a Vector of full size whose first
\* element differs from its last, next to a second live Vector.
C11_Witness ==
    /\ last.op = "resize"
    /\ \E v \in VecIds :
         /\ vec[v].live /\ vec[v].size = MaxSize /\ vec[v].data # NullPtr
         /\ Contents(v)[1] = MaxVal /\ Contents(v)[MaxSize] = 0
         /\ \E w \in VecIds \ {v} : vec[w].live /\ vec[w].size > 0

\* C12: host code gets no element access to the storage of a Vector bound to
\* the GPU executor: a write through a view of such a Vector never lands.
C12_NoHostAccess ==
    [][\A v \in VecIds, i \in 1..MaxSize, val \in Values :
          (vec[v].exec = "GPU" /\ HostViewWrite(v, i, val)) => (last'.err /\ heap' = heap)]_vars

\* C13: copyToHost(result) with result of another size reports an error and
\* leaves result as it was; with result of the source's size, result holds
\* the source's elements afterwards and the source is unchanged.
C13_Step ==
    \A src \in VecIds, result \in VecIds :
        CopyToHostInto(src, result) =>
            IF vec[result].size # vec[src].size
            THEN /\ last'.err
                 /\ vec'[result] = vec[result]
                 /\ Cells([vec |-> vec', heap |-> heap'], result) = Contents(result)
            ELSE /\ ~last'.err
                 /\ Cells([vec |-> vec', heap |-> heap'], result) = Contents(src)
                 /\ vec'[src] = vec[src]
                 /\ Cells([vec |-> vec', heap |-> heap'], src) = Contents(src)
\* C13: every copyToHost(result) step satisfies the above.
C13_CopyToHostChecked == [][last'.op = "copyToHost" => C13_Step]_vars

\* ------------------------------------------------------------- claims on computeDiv
\* the contribution of face i, and sums of contributions and of accumulators
FaceTerm(A, i) == A.faceFlux[i] * A.phiF[i]
RECURSIVE SumFaces(_, _)
SumFaces(A, F) ==
    IF F = {} THEN 0
    ELSE LET i == CHOOSE x \in F : TRUE IN FaceTerm(A, i) + SumFaces(A, F \ {i})
RECURSIVE SumCells(_, _)
SumCells(r, C) ==
    IF C = {} THEN 0
    ELSE LET c == CHOOSE x \in C : TRUE IN r[c] + SumCells(r, C \ {c})
OwnerFaces(A, c) == {i \in Range(0, A.nInternalFaces) : A.owner[i] = c}
NeighbourFaces(A, c) == {i \in Range(0, A.nInternalFaces) : A.neighbour[i] = c}
BoundaryFaces(A) == Range(A.nInternalFaces, A.nInternalFaces + A.nBoundaryFaces)
BoundaryFacesOf(A, c) == {j \in BoundaryFaces(A) : A.faceCells[j - A.nInternalFaces] = c}
DivExpected(A, c) ==
    (A.operatorScaling[c] \div A.v[c])
      * (SumFaces(A, OwnerFaces(A, c)) - SumFaces(A, NeighbourFaces(A, c))
           + SumFaces(A, BoundaryFacesOf(A, c)))
ScatterDone ==
    /\ KernelDone(args, iter, "sumFluxesInternal")
    /\ KernelDone(args, iter, "sumFluxesBoundary")
NormalizeNotStarted == \A c \in Range(0, args.nCells) : ~Started(iter, "normalizeFluxes", c)

\* C14: computeDiv started with a zero result ends, on every executor, with
\* res[c] = (scaling[c] / volume[c]) * (sum over the internal faces owned by c
\* - sum over the internal faces with neighbour c + sum over the boundary
\* faces of c) for every cell c.
C14_DivResult ==
    (args.op = "computeDiv" /\ AllDone(args, iter)) =>
        \A c \in Range(0, args.nCells) : mem.res[c] = DivExpected(args, c)

\* C15: when all faces have scattered and no cell has been normalized, the
\* accumulators of all cells sum to the sum of the boundary-face contributions.
C15_Conservation ==
    (args.op = "computeDiv" /\ ScatterDone /\ NormalizeNotStarted) =>
        SumCells(mem.res, Range(0, args.nCells)) = SumFaces(args, BoundaryFaces(args))

\* C15 witness: on the GPU executor two internal faces and a boundary face
\* have scattered into the same two cells in some order, nothing is
\* normalized yet, and the accumulators are not all zero.
C15_Witness ==
    /\ args.op = "computeDiv" /\ args.exec = "GPU"
    /\ args.nInternalFaces = MaxInternalFaces /\ args.nBoundaryFaces = MaxBoundaryFaces
    /\ ScatterDone /\ NormalizeNotStarted
    /\ args.owner[0] = args.neighbour[1]
    /\ \E c \in Range(0, args.nCells) : mem.res[c] # 0
    /\ SumFaces(args, BoundaryFaces(args)) # 0

\* C16: on the one-dimensional mesh with unit flux and unit face value, on
\* every executor, the completed assembly leaves 0 in every strictly interior
\* cell, and a nonzero result proportional to 1/volume (res * volume is a
\* nonzero multiple of the scaling) in each of the two end cells.
C16_BothEnds ==
    (args.op = "computeDiv" /\ AllDone(args, iter)) =>
        \A c \in Range(0, args.nCells) :
            IF c = 0 \/ c = args.nCells - 1
            THEN /\ mem.res[c] # 0
                 /\ \E k \in {-2, -1, 1, 2} :
                      mem.res[c] * args.v[c] = k * args.operatorScaling[c]
            ELSE mem.res[c] = 0

\* ------------------------------------------------------------- claims on computeDivImp
\* the matrix slots of a face and of a cell
NeiOffSlot(A, i) == A.rowOffs[A.neighbour[i]] + A.neiOffs[i]
OwnOffSlot(A, i) == A.rowOffs[A.owner[i]] + A.ownOffs[i]
DiagSlot(A, c) == A.rowOffs[c] + A.diagOffs[c]
Weight(A, i) == IF A.sFaceFlux[i] >= 0 THEN 1 ELSE 0
InternalDone == KernelDone(args, iter, "divImpInternal")
BoundaryNotStarted ==
    \A j \in KernelRange(args, "divImpBoundary") : ~Started(iter, "divImpBoundary", j)

\* the slot and the amount that the step of internal face i after `at` steps
\* adds, with sDiagOwn and sDiagNei the scalings of the two diagonal updates
ImpInternalAdds(A, i, at, sDiagOwn, sDiagNei) ==
    LET f == A.sFaceFlux[i]
        w == Weight(A, i)
        sn == A.operatorScaling[A.neighbour[i]]
        so == A.operatorScaling[A.owner[i]]
    IN CASE at = 1 -> [slot |-> NeiOffSlot(A, i), amount |-> (-w * f) * sn]
         [] at = 2 -> [slot |-> DiagSlot(A, A.owner[i]), amount |-> 0 - (-w * f) * sDiagOwn]
         [] at = 4 -> [slot |-> OwnOffSlot(A, i), amount |-> ((1 - w) * f) * so]
         [] OTHER -> [slot |-> DiagSlot(A, A.neighbour[i]),
                      amount |-> 0 - ((1 - w) * f) * sDiagNei]
ImpInternalStep(i, sDiagOwn, sDiagNei) ==
    LET at == iter["divImpInternal"][i].at
        adds == ImpInternalAdds(args, i, at, sDiagOwn, sDiagNei)
    IN IF at \in {0, 3}
       THEN mem' = mem
       ELSE /\ mem'.rhs = mem.rhs
            /\ mem'.values = [mem.values EXCEPT ![adds.slot] = @ + adds.amount]

\* C17: every step of an internal face adds (-w*f)*s_n to the neighbour
\* row's off-diagonal slot and subtracts that same amount (-w*f)*s_n from the
\* owner's diagonal slot, adds ((1-w)*f)*s_o to the owner row's off-diagonal
\* slot and subtracts that same amount ((1-w)*f)*s_o from the neighbour's
\* diagonal slot, and changes no other slot and no right-hand-side entry.
C17_PairedScaling ==
    [][\A i \in FaceIndices :
          DivImpInternal(i) =>
              ImpInternalStep(i, args.operatorScaling[args.neighbour[i]],
                                 args.operatorScaling[args.owner[i]])]_vars

\* the sum of column j of the matrix
RECURSIVE ColumnSum(_, _, _, _)
ColumnSum(A, M, j, rows) ==
    IF rows = {} THEN 0
    ELSE LET c == CHOOSE x \in rows : TRUE
             here == IF j \in Cols(A.owner, A.neighbour, A.nInternalFaces, c)
                     THEN M.values[A.rowOffs[c]
                                     + colOffset(A.owner, A.neighbour, A.nInternalFaces, c, j)]
                     ELSE 0
         IN here + ColumnSum(A, M, j, rows \ {c})

\* C18: after the internal-face pass on a zero matrix, for uniform and for
\* varying per-cell scaling, the off-diagonal and the diagonal entry of every
\* column cancel: every matrix column sums to zero.
C18_ColumnsCancel ==
    (args.op = "computeDivImp" /\ InternalDone /\ BoundaryNotStarted) =>
        \A j \in Range(0, args.nCells) : ColumnSum(args, mem, j, Range(0, args.nCells)) = 0

\* what internal face i adds to slot p in the code: each row is scaled by the
\* scaling of its own cell
RowTerm(A, i, p) ==
    LET f == A.sFaceFlux[i]
        w == Weight(A, i)
        sn == A.operatorScaling[A.neighbour[i]]
        so == A.operatorScaling[A.owner[i]]
    IN (IF p = NeiOffSlot(A, i) THEN (-w * f) * sn ELSE 0)
       - (IF p = DiagSlot(A, A.owner[i]) THEN (-w * f) * so ELSE 0)
       + (IF p = OwnOffSlot(A, i) THEN ((1 - w) * f) * so ELSE 0)
       - (IF p = DiagSlot(A, A.neighbour[i]) THEN ((1 - w) * f) * sn ELSE 0)
RECURSIVE SumRow(_, _, _)
SumRow(A, F, p) ==
    IF F = {} THEN 0
    ELSE LET i == CHOOSE x \in F : TRUE IN RowTerm(A, i, p) + SumRow(A, F \ {i}, p)
\* the boundary faces of cell c, and their diagonal and rhs terms
ImpBoundaryFacesOf(A, c) ==
    {j \in Range(A.nInternalFaces, A.sFaceFluxSize) : A.surfFaceCells[j - A.nInternalFaces] = c}
RECURSIVE SumBoundaryDiag(_, _)
SumBoundaryDiag(A, F) ==
    IF F = {} THEN 0
    ELSE LET j == CHOOSE x \in F : TRUE
             o == A.surfFaceCells[j - A.nInternalFaces]
         IN A.sFaceFlux[j] * A.operatorScaling[o] * (1 - A.valueFraction[j - A.nInternalFaces])
              + SumBoundaryDiag(A, F \ {j})
RECURSIVE SumBoundaryRhs(_, _)
SumBoundaryRhs(A, F) ==
    IF F = {} THEN 0
    ELSE LET j == CHOOSE x \in F : TRUE
             o == A.surfFaceCells[j - A.nInternalFaces]
         IN A.sFaceFlux[j] * A.operatorScaling[o] * A.valueFraction[j - A.nInternalFaces]
                * A.refValue[j - A.nInternalFaces]
              + SumBoundaryRhs(A, F \ {j})

\* C19: after the assembly on a zero system, the boundary pass has added to
\* the diagonal slot of every cell o the sum of f*s_o*(1-a) and subtracted
\* from rhs[o] the sum of f*s_o*a*r over the boundary faces owned by o, every
\* boundary index lies in [0, number of boundary faces), and no off-diagonal
\* slot holds anything but the contributions of the internal faces.
C19_BoundaryPass ==
    (args.op = "computeDivImp" /\ AllDone(args, iter)) =>
        /\ \A facei \in KernelRange(args, "divImpBoundary") :
              facei - args.nInternalFaces \in DOMAIN args.surfFaceCells
        /\ \A c \in Range(0, args.nCells) :
              /\ mem.values[DiagSlot(args, c)] =
                    SumRow(args, Range(0, args.nInternalFaces), DiagSlot(args, c))
                      + SumBoundaryDiag(args, ImpBoundaryFacesOf(args, c))
              /\ mem.rhs[c] = 0 - SumBoundaryRhs(args, ImpBoundaryFacesOf(args, c))
        /\ \A p \in DOMAIN mem.values :
              (\A c \in Range(0, args.nCells) : p # DiagSlot(args, c)) =>
                  mem.values[p] = SumRow(args, Range(0, args.nInternalFaces), p)

\* the DdtOperator scenario: single cell, current value 10, previous value -1,
\* step size 0.5
DdtScenario ==
    /\ args.op \in {"explicitOperation", "implicitOperation"}
    /\ args.nCells = 1
    /\ args.field[0] = 10 /\ args.oldField[0] = -1
    /\ args.dt = [num |-> 1, den |-> 2]

\* C20: in the scenario, on every executor, the completed explicit operation
\* leaves 22 * volume in the cell of the zero source, the completed implicit
\* operation leaves 2 * volume in the diagonal matrix entry and -2 * volume
\* in the right-hand-side entry of the zero linear system.
C20_DdtScenario ==
    (DdtScenario /\ AllDone(args, iter)) =>
        IF args.op = "explicitOperation"
        THEN mem.source[0] = 22 * args.vol[0]
        ELSE /\ mem.values[0] = 2 * args.vol[0]
             /\ mem.rhs[0] = (-2) * args.vol[0]

\* C20 witness: the implicit operation of the scenario has completed on the
\* GPU executor for a cell of volume 3, with 6 in the matrix and -6 in rhs.
C20_Witness ==
    /\ DdtScenario /\ args.op = "implicitOperation" /\ args.exec = "GPU"
    /\ args.vol[0] = 3
    /\ AllDone(args, iter)
    /\ mem.values[0] = 6 /\ mem.rhs[0] = -6

\* the internal and boundary faces whose scatter step touches cell c
FacesTouching(A, c) ==
    [internal |-> OwnerFaces(A, c) \cup NeighbourFaces(A, c),
     boundary |-> BoundaryFacesOf(A, c)]

\* C21: on every executor no cell's normalization step has begun unless every
\* internal-face and boundary-face scatter iteration touching that cell has
\* completed.
C21_ScatterBeforeNormalize ==
    args.op = "computeDiv" =>
        \A c \in Range(0, args.nCells) :
            Started(iter, "normalizeFluxes", c) =>
                /\ \A i \in FacesTouching(args, c).internal : Done(iter, "sumFluxesInternal", i)
                /\ \A j \in FacesTouching(args, c).boundary : Done(iter, "sumFluxesBoundary", j)

\* a scatter step of face i changes the accumulator of one cell only, by the
\* term of the face applied to the value the accumulator holds at that moment
ScatterStepAtomic(c, amount) == mem'.res = [mem.res EXCEPT ![c] = @ + amount]

\* C22: on the HostParallel and Accelerator executors every scatter step
\* adds or subtracts its term atomically, and when all face iterations have
\* completed, in whatever order and however interleaved, and no cell has been
\* normalized, the accumulators equal those of the serial loops over the
\* faces in ascending order.
C22_ScatterRaceFree ==
    /\ []((args.op = "computeDiv" /\ args.exec \in {"CPU", "GPU"}
             /\ ScatterDone /\ NormalizeNotStarted) =>
            mem.res = serialScatter(args, [c \in Range(0, args.nCells) |-> 0]))
    /\ [][args.exec \in {"CPU", "GPU"} =>
            /\ \A i \in FaceIndices :
                  SumFluxesInternal(i) =>
                      IF iter["sumFluxesInternal"][i].at = 0
                      THEN ScatterStepAtomic(args.owner[i], FaceTerm(args, i))
                      ELSE ScatterStepAtomic(args.neighbour[i], 0 - FaceTerm(args, i))
            /\ \A i \in FaceIndices :
                  SumFluxesBoundary(i) =>
                      ScatterStepAtomic(args.faceCells[i - args.nInternalFaces],
                                        FaceTerm(args, i))]_vars

\* C22 witness: on the HostParallel executor two internal faces between the
\* same two cells, in opposite directions, and a boundary face have all
\* scattered, nothing is normalized, and an accumulator is nonzero.
C22_Witness ==
    /\ args.op = "computeDiv" /\ args.exec = "CPU"
    /\ args.nInternalFaces = 2 /\ args.nBoundaryFaces = 1
    /\ args.owner[0] = args.neighbour[1] /\ args.neighbour[0] = args.owner[1]
    /\ ScatterDone /\ NormalizeNotStarted
    /\ \E c \in Range(0, args.nCells) : mem.res[c] # 0

\* a boundary-face step leaves the arrays alone (a read) or adds its term to
\* the value the diagonal slot or the rhs entry holds at that moment
ImpBoundaryStep(facei) ==
    LET at == iter["divImpBoundary"][facei].at
        o == args.surfFaceCells[facei - args.nInternalFaces]
    IN IF at \in {0, 2}
       THEN mem' = mem
       ELSE IF at = 1
            THEN /\ mem'.rhs = mem.rhs
                 /\ mem'.values = [mem.values EXCEPT ![DiagSlot(args, o)] =
                                      @ + SumBoundaryDiag(args, {facei})]
            ELSE /\ mem'.values = mem.values
                 /\ mem'.rhs = [mem.rhs EXCEPT ![o] = @ - SumBoundaryRhs(args, {facei})]

\* C23: in computeDivImp every write of an internal-face or boundary-face
\* iteration adds its contribution to the value its target holds at the
\* moment of the write, so that no contribution of a concurrently executed
\* iteration is lost, and when all iterations have completed the matrix
\* values and the rhs are those of executing the faces one at a time.
C23_NoLostContribution ==
    /\ [][/\ \A facei \in FaceIndices :
               DivImpInternal(facei) =>
                   ImpInternalStep(facei, args.operatorScaling[args.owner[facei]],
                                          args.operatorScaling[args.neighbour[facei]])
          /\ \A facei \in FaceIndices : DivImpBoundary(facei) => ImpBoundaryStep(facei)]_vars
    /\ []((args.op = "computeDivImp" /\ AllDone(args, iter)) =>
            /\ \A p \in DOMAIN mem.values :
                  mem.values[p] =
                      SumRow(args, Range(0, args.nInternalFaces), p)
                        + SumBoundaryDiag(args,
                              {j \in Range(args.nInternalFaces, args.sFaceFluxSize) :
                                   p = DiagSlot(args, args.surfFaceCells[j - args.nInternalFaces])})
            /\ \A c \in Range(0, args.nCells) :
                  mem.rhs[c] = 0 - SumBoundaryRhs(args, ImpBoundaryFacesOf(args, c)))

\* the order of the steps of solve, with the fence on the GPU executor
SolveOrder(A) ==
    <<"explicitOperation", "createEmptyLinearSystem", "implicitOperation(ls)",
      "implicitOperation(ls, t, dt)", "solve">>
      \o (IF A.eqnExec = "GPU" THEN <<"fence">> ELSE <<>>)

\* C24: solve executes its steps in the order explicit operation, empty
\* linear system, implicit spatial assembly, implicit temporal assembly, one
\* linear solve and, for an equation on the GPU executor, a fence; for such
\* an equation solve has not returned while a kernel it issued is queued or
\* running, and the fence was passed with none queued or running.
C24_SolveOrderAndFence ==
    args.op = "solve" =>
        /\ Len(mem.steps) <= Len(SolveOrder(args))
        /\ mem.steps = SubSeq(SolveOrder(args), 1, Len(mem.steps))
        /\ iter.pc = SolveReturned => mem.steps = SolveOrder(args)
        /\ (args.eqnExec = "GPU" /\ Len(mem.steps) = Len(SolveOrder(args))) =>
              \A k \in SolveKernels : mem.kernels[k] = "done"

\* C24 witness: solve has returned for an equation and a solution vector on
\* the GPU executor, after the fence, with every kernel complete.
C24_Witness ==
    /\ args.op = "solve" /\ args.eqnExec = "GPU" /\ args.vecExec = "GPU"
    /\ iter.pc = SolveReturned
    /\ mem.steps[Len(mem.steps)] = "fence"
    /\ \A k \in SolveKernels : mem.kernels[k] = "done"

\* C25: no GeometryScheme object has a null kernel, no call of updateWeights,
\* updateDeltaCoeffs or updateNonOrthDeltaCoeffs is made on a null kernel,
\* and every constructor call that is given a null kernel ends in the fatal
\* error without having made such a call.
C25_NoNullKernel ==
    /\ [](args.op = "GeometryScheme" =>
            /\ \A id \in SchemeIds : mem.schemes[id].kernel # "null"
            /\ \A c \in mem.calls : c.kernel # "null")
    /\ [][\A ctor \in {"exec, kernel, fields", "exec, mesh, kernel"}, m \in Meshes :
             Construct(ctor, "null", m) =>
                 /\ mem'.fatal
                 /\ mem'.schemes = mem.schemes
                 /\ mem'.calls = mem.calls]_vars

\* C25 witness: a constructor given a null kernel has exited with the fatal
\* error while schemes built earlier, with their kernels updated, exist.
C25_Witness ==
    /\ args.op = "GeometryScheme"
    /\ mem.fatal
    /\ \E id \in SchemeIds : mem.schemes[id].kernel = "given"
    /\ mem.calls # {}

\* C26: over any sequence of readOrCreate calls for a mesh, a scheme is built
\* and inserted only by a call that finds the key absent, at most once per
\* mesh; a call that finds the key present leaves the database and the
\* schemes as they are; and all calls for the mesh return the same instance.
C26_ReadOrCreateIdempotent ==
    /\ [](args.op = "GeometryScheme" =>
            \A m \in Meshes :
                /\ mem.built[m] <= 1
                /\ Cardinality(mem.returned[m]) <= 1
                /\ mem.returned[m] # {} => mem.returned[m] = {mem.db[m]})
    /\ [][\A m \in Meshes :
             ReadOrCreate(m) =>
                 IF mem.db[m] # 0
                 THEN /\ mem'.db = mem.db
                      /\ mem'.schemes = mem.schemes
                      /\ mem'.built = mem.built
                 ELSE /\ mem'.built[m] = 1
                      /\ mem'.db[m] \in SchemeIds
                      /\ mem.schemes[mem'.db[m]] = NoScheme
                      /\ mem'.schemes[mem'.db[m]].kernel = "basic"]_vars

\* C26 witness: readOrCreate has been called for both meshes, each mesh has
\* exactly one scheme built by it, the two are different instances, and the
\* scheme of mesh 1 has been updated since through the returned pointer.
C26_Witness ==
    /\ args.op = "GeometryScheme"
    /\ \A m \in Meshes : mem.built[m] = 1 /\ mem.returned[m] = {mem.db[m]}
    /\ mem.db[1] # mem.db[2]
    /\ mem.schemes[mem.db[1]].updates > 0

\* the element indices of the source Vector that a view references
Referenced(w) == {w.first + k : k \in 0..(w.size - 1)}

\* C27: the sub-view taken last with view({first, second}) starts at element
\* first and has second - first elements, the difference taken in localIdx;
\* whatever the pair, it references only elements in [0, size()) of its
\* Vector; and for the pair range() it covers the elements of view().
C27_SubViewNarrows ==
    last.op = "viewRange" =>
        /\ last.view.data = vec[last.of].data
        /\ last.view.first = last.first
        /\ last.view.size = (last.second - last.first) % IdxModulus
        /\ Referenced(last.view) \subseteq 0..(vec[last.of].size - 1)
        /\ <<last.first, last.second>> = range(Store, last.of) =>
              Referenced(last.view) = Referenced(view(Store, last.of))

====
